---- MODULE Spec2Model ----
(***************************************************************************)
(* Model of the gaussian_io package: splitting a Gaussian16 file into its  *)
(* link segments (read_out, read_in), the input-job parser (Header,        *)
(* GaussianIn) and the output-job parser (GaussianOut).                     *)
(*                                                                         *)
(* Text is modelled as it is stored: a line is a sequence of tokens, a     *)
(* token being a run of characters that the code never looks inside        *)
(* (" " and "\n" are the white-space tokens).  A Python string is therefore *)
(* a sequence of tokens, a list of lines a sequence of such sequences.     *)
(***************************************************************************)
EXTENDS Integers, Sequences, FiniteSets, TLC

VARIABLES
    doc,      \* RawDocument: the lines handed to the reader / the constructor
    pc,       \* "ready" before the document was read, "done" after
    op,       \* name of the last operation that ran
    segs,     \* the line slices the splitter passed to the constructors
    notice,   \* count carried by the multiple-links warning, NoNotice if none
    gin,      \* list of GaussianIn objects returned by read_in
    gout,     \* list of GaussianOut objects (read_out result / constructed)
    err,      \* exception raised by the last operation (NoErr if none)
    ret,      \* value returned by the last accessor
    calls,    \* number of accessor calls made so far on the object
    arg,      \* arguments of the last file operation (per_folder, destination)
    disk      \* what the file operations left on disk: folders, written file

vars == <<doc, pc, op, segs, notice, gin, gout, err, ret, calls, arg, disk>>

-----------------------------------------------------------------------------
(* Bounds of the model *)

MaxPieces == 3      \* pieces a document of the splitter is assembled from
MaxCalls == 3       \* accessor calls made on one GaussianOut
MaxSteps == 3       \* optimisation steps ('Converged?' markers) in a segment
MaxShort == 11      \* longest segment of filler lines (the guard is at 10)
MaxRows == 2        \* atom records in a list handed to a decoder
MaxFiles == 4       \* files in the directory handed to files_distribution
MaxPer == 3         \* largest per_folder argument of files_distribution

-----------------------------------------------------------------------------
(* Generic text helpers (Python str / list primitives) *)

NoNotice == -1

NoErr == [type |-> "none", msg |-> <<>>]

Raise(t, m) == [type |-> t, msg |-> m]

Min(a, b) == IF a < b THEN a ELSE b

WS == {" ", "\n"}

\* s[a:b] for 0 <= a, 0 <= b
Slice(s, a, b) == SubSeq(s, a + 1, Min(b, Len(s)))

\* s.startswith(pre)
StartsWith(s, pre) == Len(s) >= Len(pre) /\ SubSeq(s, 1, Len(pre)) = pre

RECURSIVE LStrip(_)
LStrip(s) == IF s # <<>> /\ Head(s) \in WS THEN LStrip(Tail(s)) ELSE s

RECURSIVE RStrip(_)
RStrip(s) ==
    IF s # <<>> /\ s[Len(s)] \in WS THEN RStrip(SubSeq(s, 1, Len(s) - 1)) ELSE s

\* s.strip()
Strip(s) == RStrip(LStrip(s))

\* concatenation of a list of strings
RECURSIVE Concat(_)
Concat(ss) == IF ss = <<>> THEN <<>> ELSE Head(ss) \o Concat(Tail(ss))

\* s.split(d) for a one-token delimiter d: always at least one part
RECURSIVE SplitOn(_, _)
SplitOn(s, d) ==
    IF \A i \in 1..Len(s) : s[i] # d THEN <<s>>
    ELSE LET i == CHOOSE k \in 1..Len(s) : s[k] = d /\ \A m \in 1..(k - 1) : s[m] # d
         IN <<SubSeq(s, 1, i - 1)>> \o SplitOn(SubSeq(s, i + 1, Len(s)), d)

\* indices (0-based, ascending) of the elements of s that satisfy P
Indices0(s, P(_)) ==
    LET F[i \in 0..Len(s)] ==
            IF i = 0 THEN <<>>
            ELSE IF P(s[i]) THEN F[i - 1] \o <<i - 1>> ELSE F[i - 1]
    IN F[Len(s)]

-----------------------------------------------------------------------------
(* Number tokens.  Decimal values are kept in tenths, so that 3.5 is 35.   *)

\* float(tok) * 10 for the tokens that are one decimal number
NumTokens ==
    {"0", "1", "2", "3", "3.5", "-1", "0.0", "1.5",
     "0.0000000000", "1.0000000000", "2.0000000000", "3.0000000000",
     "3.5000000000", "-1.0000000000", "1.5000000000"}

Tenths(tok) ==
    CASE tok = "0" -> 0
      [] tok = "1" -> 10
      [] tok = "2" -> 20
      [] tok = "3" -> 30
      [] tok = "3.5" -> 35
      [] tok = "-1" -> -10
      [] tok = "0.0" -> 0
      [] tok = "1.5" -> 15
      [] tok = "0.0000000000" -> 0
      [] tok = "1.0000000000" -> 10
      [] tok = "2.0000000000" -> 20
      [] tok = "3.0000000000" -> 30
      [] tok = "3.5000000000" -> 35
      [] tok = "-1.0000000000" -> -10
      [] tok = "1.5000000000" -> 15
      [] OTHER -> 0

\* '{:.10f}'.format(v) for a value v given in tenths
Format10(v) ==
    CASE v = 0 -> "0.0000000000"
      [] v = 10 -> "1.0000000000"
      [] v = 20 -> "2.0000000000"
      [] v = 30 -> "3.0000000000"
      [] v = 35 -> "3.5000000000"
      [] v = -10 -> "-1.0000000000"
      [] v = 15 -> "1.5000000000"
      [] OTHER -> "?"

\* re.findall(r'-?\d+', tok) as integers.  The ten digits behind the point of
\* a formatted coordinate are written with nine digits, to stay within 32
\* bits: such a token stands on atom lines only, which hold six numbers and
\* never give a charge and a multiplicity.
IntsIn(tok) ==
    CASE tok = "0" -> <<0>>
      [] tok = "1" -> <<1>>
      [] tok = "2" -> <<2>>
      [] tok = "3" -> <<3>>
      [] tok = "-1" -> <<-1>>
      [] tok = "3.5" -> <<3, 5>>
      [] tok = "0.0" -> <<0, 0>>
      [] tok = "1.5" -> <<1, 5>>
      [] tok = "Link1" -> <<1>>
      [] tok = "link1" -> <<1>>
      [] tok = "Gaussian 16:" -> <<16>>
      [] tok = "termination of Gaussian 16" -> <<16>>
      [] tok = "g16" -> <<16>>
      [] tok = "l502" -> <<502>>
      [] tok = "l9999" -> <<9999>>
      [] tok = "Thu Jan  2 03:04:05 2020" -> <<2, 3, 4, 5, 2020>>
      [] tok = "8" -> <<8>>
      [] tok = "0.0000000000" -> <<0, 0>>
      [] tok = "1.0000000000" -> <<1, 0>>
      [] tok = "2.0000000000" -> <<2, 0>>
      [] tok = "3.0000000000" -> <<3, 0>>
      [] tok = "3.5000000000" -> <<3, 500000000>>
      [] tok = "-1.0000000000" -> <<-1, 0>>
      [] tok = "1.5000000000" -> <<1, 500000000>>
      [] OTHER -> <<>>

\* re.findall(r'\d+\.?\d*', tok) as floats, in tenths
FloatsIn(tok) ==
    CASE tok \in {"-1", "-1.0000000000"} -> <<10>>
      [] tok \in NumTokens -> <<Tenths(tok)>>
      [] OTHER -> [i \in 1..Len(IntsIn(tok)) |-> 10 * IntsIn(tok)[i]]

RECURSIVE IntsOf(_)
IntsOf(line) == IF line = <<>> THEN <<>> ELSE IntsIn(Head(line)) \o IntsOf(Tail(line))

RECURSIVE FloatsOf(_)
FloatsOf(line) ==
    IF line = <<>> THEN <<>> ELSE FloatsIn(Head(line)) \o FloatsOf(Tail(line))

-----------------------------------------------------------------------------
(* Header: the header section of an input file (header.py) *)

HeaderDefault ==
    [sys |-> <<>>, method |-> <<>>, comments |-> <<>>, charge |-> 0,
     multiplicity |-> 1]

\* d[k] = v on an insertion-ordered dict kept as a sequence of <<key, value>>
DictSet(d, k, v) ==
    IF \E i \in 1..Len(d) : d[i][1] = k
    THEN [i \in 1..Len(d) |-> IF d[i][1] = k THEN <<k, v>> ELSE d[i]]
    ELSE Append(d, <<k, v>>)

DictKeys(d) == {d[i][1] : i \in 1..Len(d)}

DictGet(d, k) == d[CHOOSE i \in 1..Len(d) : d[i][1] = k][2]

\* re.split(r'#\s?', method)
RECURSIVE SplitRoute(_)
SplitRoute(s) ==
    IF \A i \in 1..Len(s) : s[i] # "#" THEN <<s>>
    ELSE LET i == CHOOSE k \in 1..Len(s) : s[k] = "#" /\ \A m \in 1..(k - 1) : s[m] # "#"
             j == IF i < Len(s) /\ s[i + 1] \in WS THEN i + 2 ELSE i + 1
         IN <<SubSeq(s, 1, i - 1)>> \o SplitRoute(SubSeq(s, j, Len(s)))

\* Header._read_header, from line i (1-based) on, with the directives and the
\* method text gathered so far
RECURSIVE ReadHeaderFrom(_, _, _, _)
ReadHeaderFrom(job_lines, i, sys, method) ==
    IF i > Len(job_lines)
    THEN [h |-> [HeaderDefault EXCEPT !.sys = sys], err |-> NoErr]
    ELSE LET line == job_lines[i] IN
         IF StartsWith(line, <<"%">>)
         THEN LET kv == SplitOn(SubSeq(line, 2, Len(line) - 1), "=") IN
              IF Len(kv) # 2
              THEN [h |-> HeaderDefault, err |-> Raise("ValueError", <<"unpack">>)]
              ELSE ReadHeaderFrom(job_lines, i + 1, DictSet(sys, kv[1], kv[2]), method)
         ELSE IF StartsWith(line, <<"#">>)
         THEN ReadHeaderFrom(job_lines, i + 1, sys, method \o Strip(line))
         ELSE IF line = <<"\n">>
         THEN IF i + 3 > Len(job_lines)
              THEN [h |-> HeaderDefault, err |-> Raise("IndexError", <<"list index">>)]
              ELSE LET cm == IntsOf(job_lines[i + 3]) IN
                   IF Len(cm) # 2
                   THEN [h |-> HeaderDefault, err |-> Raise("ValueError", <<"unpack">>)]
                   ELSE [h |-> [sys |-> sys,
                                method |-> Tail(SplitRoute(method)),
                                comments |-> Strip(job_lines[i + 1]),
                                charge |-> cm[1],
                                multiplicity |-> cm[2]],
                         err |-> NoErr]
         ELSE ReadHeaderFrom(job_lines, i + 1, sys, method)

\* Header(header_lines)
Header(header_lines) == ReadHeaderFrom(header_lines, 1, <<>>, <<>>)

\* '{}'.format(n) for the integers a charge or a multiplicity takes here
FormatInt(n) ==
    CASE n = 0 -> "0"
      [] n = 1 -> "1"
      [] n = 2 -> "2"
      [] n = 3 -> "3"
      [] n = -1 -> "-1"
      [] OTHER -> "?"

\* Header._sys_line(key, value)
SysLine(key, value) == <<"%">> \o key \o <<"=">> \o value \o <<"\n">>

\* Header._method_line(method)
MethodLine(method) == <<"#", " ">> \o method \o <<"\n">>

\* get_header that writes all the method keywords on one route line
GetHeaderOneRoute(h) ==
    [i \in 1..Len(h.sys) |-> SysLine(h.sys[i][1], h.sys[i][2])]
        \o (IF h.method = <<>> THEN <<>>
            ELSE << <<"#">> \o Concat([i \in 1..Len(h.method) |-> <<" ">> \o h.method[i]])
                       \o <<"\n">> >>)
        \o << <<"\n">>,
              h.comments \o <<"\n">>,
              <<"\n">>,
              <<FormatInt(h.charge), " ", FormatInt(h.multiplicity), "\n">> >>

\* Header.get_header(self): the lines of the header section
GetHeader(h) ==
    [i \in 1..Len(h.sys) |-> SysLine(h.sys[i][1], h.sys[i][2])]
        \o [i \in 1..Len(h.method) |-> MethodLine(h.method[i])]
        \o << <<"\n">>,
              h.comments \o <<"\n">>,
              <<"\n">>,
              <<FormatInt(h.charge), " ", FormatInt(h.multiplicity), "\n">> >>

-----------------------------------------------------------------------------
(* CoordinateDecoder (coordinates_reader with a dialect tag, PERIODIC_TABLE) *)

\* PERIODIC_TABLE[int(tok)]; "" when the atomic number is not in the table
PeriodicTable(tok) ==
    CASE tok = "1" -> "H"
      [] tok = "3" -> "Li"
      [] tok = "6" -> "C"
      [] tok = "7" -> "N"
      [] tok = "8" -> "O"
      [] tok = "9" -> "F"
      [] tok = "11" -> "Na"
      [] tok = "15" -> "P"
      [] tok = "16" -> "S"
      [] tok = "17" -> "Cl"
      [] tok = "35" -> "Br"
      [] tok = "53" -> "I"
      [] OTHER -> ""

\* re.split(r',|\s+', s) of a stripped string: a list of fields
RECURSIVE SplitFields(_)
SplitFields(s) ==
    IF \A i \in 1..Len(s) : s[i] \notin WS \cup {","} THEN <<s>>
    ELSE LET i == CHOOSE k \in 1..Len(s) :
                    s[k] \in WS \cup {","} /\ \A m \in 1..(k - 1) : s[m] \notin WS \cup {","}
             rest == IF s[i] = "," THEN SubSeq(s, i + 1, Len(s))
                     ELSE LStrip(SubSeq(s, i, Len(s)))
         IN <<SubSeq(s, 1, i - 1)>> \o SplitFields(rest)

\* re.split(r',|\s+', item.strip())
Fields(item) == SplitFields(Strip(item))

\* float(field) succeeds
IsFloat(field) == Len(field) = 1 /\ field[1] \in NumTokens

\* one atom record -> <<symbol, x, y, z>>; <<>> when it cannot be decoded
DecodeAtom(item, ftype) ==
    LET f == Fields(item)
        n == Len(f)
    IN IF n < 4 \/ \E i \in (n - 2)..n : ~IsFloat(f[i]) THEN <<>>
       ELSE IF ftype = "out"
       THEN IF Len(f[2]) # 1 \/ PeriodicTable(f[2][1]) = "" THEN <<>>
            ELSE <<(<<PeriodicTable(f[2][1])>>), f[n - 2], f[n - 1], f[n]>>
       ELSE <<f[1], f[n - 2], f[n - 1], f[n]>>

\* coordinates_reader(line_list, ftype): blank records are skipped
CoordinatesReader(line_list, ftype) ==
    LET items == SelectSeq(line_list, LAMBDA l : Strip(l) # <<>>)
        atoms == [i \in 1..Len(items) |-> DecodeAtom(items[i], ftype)]
    IN IF \E i \in 1..Len(atoms) : atoms[i] = <<>>
       THEN [coord |-> <<>>, err |-> Raise("KeyError", <<"atom record">>)]
       ELSE [coord |-> atoms, err |-> NoErr]

\* period_table[tok] of the reader of utils.py; "" when the key is missing
PeriodTable(tok) ==
    CASE tok = "1" -> "H"
      [] tok = "3" -> "Li"
      [] tok = "6" -> "C"
      [] tok = "7" -> "N"
      [] tok = "8" -> "O"
      [] tok = "9" -> "F"
      [] tok = "11" -> "Na"
      [] tok = "15" -> "P"
      [] tok = "16" -> "S"
      [] tok = "17" -> "Cl"
      [] tok = "35" -> "Br"
      [] tok = "53" -> "I"
      [] OTHER -> ""

\* one record of the reader of utils.py: re.split(r',|\s+', item) of the
\* unstripped record, the symbol looked up from the third field unless the
\* record has four fields; the record [atom] + pos, or the exception
ReadRecord(item) ==
    LET segments == SplitFields(item)
        n == Len(segments)
        pos == IF n = 4 THEN SubSeq(segments, 2, 4)
               ELSE SubSeq(segments, IF n > 4 THEN n - 3 ELSE 1, n - 1)
    IN IF n # 4 /\ n < 3
       THEN [atom |-> <<>>, err |-> Raise("IndexError", <<"list index">>)]
       ELSE IF n # 4 /\ (Len(segments[3]) # 1 \/ PeriodTable(segments[3][1]) = "")
       THEN [atom |-> <<>>, err |-> Raise("KeyError", segments[3])]
       ELSE IF \E k \in 1..Len(pos) : ~IsFloat(pos[k])
       THEN [atom |-> <<>>, err |-> Raise("ValueError", <<"float">>)]
       ELSE [atom |-> <<(IF n = 4 THEN segments[1] ELSE <<PeriodTable(segments[3][1])>>)>>
                          \o pos,
             err |-> NoErr]

\* coordinates_reader(line_list) of utils.py: the exception of the first
\* record that fails, else the records
RECURSIVE ReadRecords(_, _)
ReadRecords(line_list, coordinates) ==
    IF line_list = <<>> THEN [coord |-> coordinates, err |-> NoErr]
    ELSE LET r == ReadRecord(Head(line_list)) IN
         IF r.err # NoErr THEN [coord |-> <<>>, err |-> r.err]
         ELSE ReadRecords(Tail(line_list), Append(coordinates, r.atom))

-----------------------------------------------------------------------------
(* GaussianIn (gaussian.py) *)

\* GaussianIn.__init__(in_lines)
GaussianIn(in_lines) ==
    LET blanks == Indices0(in_lines, LAMBDA l : l = <<"\n">>)
        index == IF blanks = <<>> THEN -1 ELSE blanks[1]
        header_lines == IF index < 0 THEN <<>> ELSE Slice(in_lines, 0, index + 4)
        coord_lines ==
            IF index < 0 THEN <<>> ELSE Slice(in_lines, index + 4, Len(in_lines) - 1)
        hd == Header(header_lines)
        cr == CoordinatesReader(coord_lines, "xyz")
    IN IF hd.err # NoErr THEN [g |-> [header |-> HeaderDefault, coord |-> <<>>],
                               err |-> hd.err]
       ELSE IF cr.err # NoErr THEN [g |-> [header |-> HeaderDefault, coord |-> <<>>],
                                    err |-> cr.err]
       ELSE [g |-> [header |-> hd.h, coord |-> cr.coord], err |-> NoErr]

\* re.search(r'geom', ''.join(method), re.IGNORECASE)
HasGeom(method) ==
    \E i \in 1..Len(Concat(method)) : Concat(method)[i] \in {"geom", "Geom", "GEOM"}

\* '{}{:>20.10f}{:>20.10f}{:>20.10f}\n'.format(*segments): the symbol and
\* three numbers, each right-aligned behind blanks
CoordinateLine(segments) ==
    segments[1]
        \o <<" ", Format10(Tenths(segments[2][1]))>>
        \o <<" ", Format10(Tenths(segments[3][1]))>>
        \o <<" ", Format10(Tenths(segments[4][1]))>>
        \o <<"\n">>

\* to_gjf that writes no closing blank line
ToGjfNoBlank(g) ==
    GetHeader(g.header)
        \o (IF ~HasGeom(g.header.method)
            THEN [k \in 1..Len(g.coord) |-> CoordinateLine(g.coord[k])]
            ELSE <<>>)

\* GaussianIn.to_gjf(path=None): the lines of the input file
ToGjf(g) ==
    GetHeader(g.header)
        \o (IF ~HasGeom(g.header.method)
            THEN [k \in 1..Len(g.coord) |-> CoordinateLine(g.coord[k])]
            ELSE <<>>)
        \o << <<"\n">> >>

-----------------------------------------------------------------------------
(* GaussianOut (gaussian.py): status detection in the constructor *)

MinLines == 10

\* s[k] for a Python index k that may be negative (counted from the end)
PyAt(s, k) == IF k < 0 THEN s[Len(s) + k + 1] ELSE s[k + 1]

\* re.match(r' File| Normal', line)
IsTerminal(line) == Len(line) >= 2 /\ line[1] = " " /\ line[2] \in {"File", "Normal"}

\* line.startswith(' Error termination')
IsErrorTermination(line) ==
    Len(line) >= 4 /\ SubSeq(line, 1, 4) = <<" ", "Error", " ", "termination">>

\* re.match(r' Error| Normal', line)
IsErrorOrNormal(line) ==
    Len(line) >= 2 /\ line[1] = " " /\ line[2] \in {"Error", "Normal"}

\* start positions of the matches of r'g16/(.*)\.exe' in the line
ExeMatches(line) ==
    {i \in 1..Len(line) :
        /\ line[i] = "g16"
        /\ i < Len(line)
        /\ line[i + 1] = "/"
        /\ \E j \in (i + 2)..Len(line) : line[j] = ".exe"}

\* re.findall(r'g16/(.*)\.exe', line)[0]: leftmost match, greedy group
FindExe(line) ==
    LET i == CHOOSE k \in ExeMatches(line) : \A m \in ExeMatches(line) : k <= m
        j == CHOOSE k \in (i + 2)..Len(line) :
                /\ line[k] = ".exe"
                /\ \A m \in (k + 1)..Len(line) : line[m] # ".exe"
    IN SubSeq(line, i + 2, j - 1)

NoKind == [set |-> FALSE, kind |-> <<>>]

\* truth value of self.error ('' and False are both falsy)
Truthy(e) == e.set /\ e.kind # <<>>

\* the attributes of a GaussianOut right after the assignments of __init__
NewOut(out_lines) ==
    [lines |-> out_lines,
     finished |-> TRUE,
     error_type |-> NoKind,
     parser |-> FALSE,
     sum_reader |-> FALSE,
     index_header |-> <<0, 0>>,
     index_sum |-> <<0, 0>>,
     has_header |-> FALSE,
     header |-> HeaderDefault,
     summary |-> <<>>,
     opt_steps |-> <<>>,
     cpu_time |-> 0,
     elapsed_time |-> 0,
     date |-> <<>>]

-----------------------------------------------------------------------------
(* GaussianOut._parser: header, time stamps, summary slice *)

IsGauss16(line) == StartsWith(line, <<" ", "Gaussian", " ", "16:">>)

\* line.startswith(' Charge = ')
IsChargeEq(line) == StartsWith(line, <<" ", "Charge", " ", "=", " ">>)

\* line.startswith(' Charge')
IsCharge(line) == StartsWith(line, <<" ", "Charge">>)

\* re.match(r'\s-+\n', line), re.match(r' -+\n', line)
IsDash(line) == Len(line) >= 3 /\ line[1] = " " /\ line[2] = "-----" /\ line[3] = "\n"

\* re.match(r'\s%', line)
IsSysOut(line) == Len(line) >= 2 /\ line[1] \in WS /\ line[2] = "%"

IsCpu(line) == StartsWith(line, <<" ", "Job", " ", "cpu", " ", "time:">>)

\* line.endswith('@\n')
IsArchEnd(line) ==
    Len(line) >= 2 /\ line[Len(line)] = "\n" /\ line[Len(line) - 1] = "@"

\* line.startswith(' 1\\1\\')
IsArchStart(line) == StartsWith(line, <<" ", "1", "\\", "1", "\\">>)

\* the header slice: <<header_start, header_end>>, scanning from line i (1-based)
RECURSIVE HeaderRange(_, _, _)
HeaderRange(lines, i, start) ==
    IF i > Len(lines) THEN <<start, 0>>
    ELSE IF IsGauss16(lines[i]) THEN HeaderRange(lines, i + 1, (i - 1) + 3)
    ELSE IF IsChargeEq(lines[i]) THEN <<start, (i - 1) + 1>>
    ELSE HeaderRange(lines, i + 1, start)

\* the loop of _parser_header over lines i..stop (1-based): the header lines
RECURSIVE ParserHeaderFrom(_, _, _, _, _, _)
ParserHeaderFrom(lines, i, stop, header_seg, method_line, header_lines) ==
    IF i > stop THEN header_lines
    ELSE LET line == lines[i] IN
         IF IsDash(line)
         THEN ParserHeaderFrom(lines, i + 1, stop, header_seg + 1, method_line,
                               header_lines)
         ELSE IF IsSysOut(line)
         THEN ParserHeaderFrom(lines, i + 1, stop, header_seg, method_line,
                               Append(header_lines, Strip(line)))
         ELSE IF header_seg = 1
         THEN ParserHeaderFrom(lines, i + 1, stop, header_seg,
                               method_line \o Strip(line), header_lines)
         ELSE IF header_seg = 3
         THEN ParserHeaderFrom(lines, i + 1, stop, header_seg, method_line,
                               header_lines \o <<method_line, <<"\n">>, Strip(line)>>)
         ELSE IF IsCharge(line)
         THEN header_lines \o <<(<<"\n">>), Strip(line)>>
         ELSE ParserHeaderFrom(lines, i + 1, stop, header_seg, method_line,
                               header_lines)

\* _parser_header: Header built from the header slice
ParserHeader(lines, range) ==
    Header(ParserHeaderFrom(lines, range[1] + 1, range[2], 0, <<>>, <<>>))

\* _time_compiler(time_line) in tenths of a second; -1 when fewer than four
\* numbers are found (IndexError)
TimeCompiler(time_line) ==
    LET t == FloatsOf(time_line) IN
    IF Len(t) < 4 THEN -1
    ELSE t[1] * 86400 + t[2] * 3600 + t[3] * 60 + t[4]

ValidDates == {"Thu Jan  2 03:04:05 2020"}

\* start positions of the matches of r'at (.*)\.' in the line
DateMatches(line) ==
    {i \in 1..Len(line) :
        line[i] = "at " /\ \E j \in (i + 1)..Len(line) : line[j] = "."}

\* re.findall(r'at (.*)\.', line)[0]
FindDate(line) ==
    LET i == CHOOSE k \in DateMatches(line) : \A m \in DateMatches(line) : k <= m
        j == CHOOSE k \in (i + 1)..Len(line) :
                line[k] = "." /\ \A m \in (k + 1)..Len(line) : line[m] # "."
    IN SubSeq(line, i + 1, j - 1)

\* re.search(r'freq', ''.join(method), re.IGNORECASE)
HasFreq(method) ==
    \E i \in 1..Len(Concat(method)) : Concat(method)[i] \in {"freq", "Freq", "FREQ"}

\* the date stamp of _parser, parsed from the last line into acc
DateStamp(acc, found) ==
    IF found = <<"no match">>
    THEN [acc EXCEPT !.err = Raise("IndexError", <<"list index">>)]
    ELSE IF Len(found) # 1 \/ found[1] \notin ValidDates
    THEN [acc EXCEPT !.err = Raise("ValueError", <<"time data">>)]
    ELSE [acc EXCEPT !.date = found]

\* one ' Job cpu time:' line of the time scan: cpu and el are the decoded
\* durations of the line and of the line after it (-1: IndexError)
TimePair(acc, cpu, el) ==
    IF cpu < 0 THEN [acc EXCEPT !.err = Raise("IndexError", <<"list index">>)]
    ELSE IF el < 0
    THEN [acc EXCEPT !.cpu = @ + cpu, !.err = Raise("IndexError", <<"list index">>)]
    ELSE [acc EXCEPT !.cpu = @ + cpu, !.el = @ + el, !.len_time = @ - 1]

\* the body of the time loop of _parser at index i (0-based)
TimeStep(lines, i, acc) ==
    IF IsCpu(lines[i + 1])
    THEN TimePair(acc, TimeCompiler(lines[i + 1]),
                  IF i + 2 > Len(lines) THEN -1 ELSE TimeCompiler(lines[i + 2]))
    ELSE IF IsErrorOrNormal(lines[i + 1])
    THEN DateStamp(acc, IF DateMatches(lines[Len(lines)]) = {} THEN <<"no match">>
                        ELSE FindDate(lines[Len(lines)]))
    ELSE acc

RECURSIVE TimeScan(_, _, _)

\* a time loop that never stops early: every pair of the segment is added
TimeNextNoStop(lines, i, a1) == TimeScan(lines, i - 1, a1)

\* the time loop of _parser went through index i: stop or go on to i - 1
TimeNext(lines, i, a1) ==
    IF a1.err = NoErr /\ a1.len_time = 0 THEN a1 ELSE TimeScan(lines, i - 1, a1)

\* the backward time scan of _parser from index i (0-based) down to 2
TimeScan(lines, i, acc) ==
    IF i < 2 \/ acc.err # NoErr THEN acc
    ELSE TimeNext(lines, i, TimeStep(lines, i, acc))

\* the backward scan for the summary slice from index i (0-based) down to 2
RECURSIVE SumRange(_, _, _)
SumRange(lines, i, sum_end) ==
    IF i < 2 THEN <<0, sum_end>>
    ELSE IF IsArchEnd(lines[i + 1]) THEN SumRange(lines, i - 1, i + 1)
    ELSE IF IsArchStart(lines[i + 1]) THEN <<i, sum_end>>
    ELSE SumRange(lines, i - 1, sum_end)

\* the end of _parser: the summary slice and the parser flag, for the header
\* hd and the time scan tm
ParserEnd(g, range, hd, tm) ==
    IF tm.err # NoErr
    THEN [g |-> [g EXCEPT !.index_header = range, !.has_header = TRUE,
                          !.header = hd.h, !.cpu_time = tm.cpu,
                          !.elapsed_time = tm.el, !.date = tm.date],
          err |-> tm.err]
    ELSE [g |-> [g EXCEPT !.index_header = range, !.has_header = TRUE,
                          !.header = hd.h, !.cpu_time = tm.cpu,
                          !.elapsed_time = tm.el, !.date = tm.date,
                          !.index_sum = IF ~g.error_type.set
                                        THEN SumRange(g.lines, Len(g.lines) - 1, 0)
                                        ELSE @,
                          !.parser = TRUE],
          err |-> NoErr]

\* the time part of _parser, for the header hd
ParserTimes(g, range, hd) ==
    IF hd.err # NoErr THEN [g |-> [g EXCEPT !.index_header = range], err |-> hd.err]
    ELSE ParserEnd(g, range, hd,
                   TimeScan(g.lines, Len(g.lines) - 1,
                            [cpu |-> g.cpu_time, el |-> g.elapsed_time,
                             date |-> g.date,
                             len_time |-> IF HasFreq(hd.h.method)
                                             /\ Truthy(g.error_type)
                                          THEN 2 ELSE 1,
                             err |-> NoErr]))

\* the header part of _parser, for the header slice range
ParserRange(g, range) == ParserTimes(g, range, ParserHeader(g.lines, range))

\* GaussianOut._parser(self): the object afterwards and the exception raised
Parser(g) ==
    IF ~g.finished
    THEN [g |-> g, err |-> Raise("AssertionError", <<"Unfinished Gaussian out job.">>)]
    ELSE ParserRange(g, HeaderRange(g.lines, 1, 0))

\* the status detection of __init__ without the length guard
ConstructNoGuard(out_lines) ==
    LET g0 == NewOut(out_lines) IN
    IF out_lines = <<>> THEN [g |-> g0, err |-> Raise("IndexError", <<"list index">>)]
    ELSE IF ~IsTerminal(out_lines[Len(out_lines)])
    THEN [g |-> [g0 EXCEPT !.finished = FALSE], err |-> NoErr]
    ELSE IF Len(out_lines) < 4
    THEN [g |-> g0, err |-> Raise("IndexError", <<"list index">>)]
    ELSE IF IsErrorTermination(PyAt(out_lines, -4))
    THEN IF ExeMatches(PyAt(out_lines, -4)) = {}
         THEN [g |-> g0, err |-> Raise("IndexError", <<"list index">>)]
         ELSE [g |-> [g0 EXCEPT !.error_type =
                         [set |-> TRUE, kind |-> FindExe(PyAt(out_lines, -4))]],
               err |-> NoErr]
    ELSE Parser(g0)

\* __init__ that runs _parser on every segment long enough, finished or not
ConstructAlwaysParse(out_lines) ==
    LET g0 == NewOut(out_lines) IN
    IF Len(out_lines) < MinLines
    THEN [g |-> [g0 EXCEPT !.finished = FALSE], err |-> NoErr]
    ELSE IF ~IsTerminal(out_lines[Len(out_lines)])
    THEN [g |-> [Parser(g0).g EXCEPT !.finished = FALSE], err |-> NoErr]
    ELSE IF IsErrorTermination(PyAt(out_lines, -4))
    THEN IF ExeMatches(PyAt(out_lines, -4)) = {}
         THEN [g |-> g0, err |-> Raise("IndexError", <<"list index">>)]
         ELSE [g |-> [g0 EXCEPT !.error_type =
                         [set |-> TRUE, kind |-> FindExe(PyAt(out_lines, -4))]],
               err |-> NoErr]
    ELSE Parser(g0)

\* GaussianOut.__init__(out_lines, name)
Construct(out_lines) ==
    LET g0 == NewOut(out_lines) IN
    IF Len(out_lines) < MinLines \/ ~IsTerminal(out_lines[Len(out_lines)])
    THEN [g |-> [g0 EXCEPT !.finished = FALSE], err |-> NoErr]
    ELSE LET error_line == PyAt(out_lines, -4) IN
         IF IsErrorTermination(error_line)
         THEN IF ExeMatches(error_line) = {}
              THEN [g |-> g0, err |-> Raise("IndexError", <<"list index">>)]
              ELSE [g |-> [g0 EXCEPT !.error_type =
                              [set |-> TRUE, kind |-> FindExe(error_line)]],
                    err |-> NoErr]
         ELSE Parser(g0)

-----------------------------------------------------------------------------
(* GaussianOut._parser_sum and the accessors of the summary *)

\* s.split('\\\\'): split on two consecutive backslashes
RECURSIVE SplitDouble(_)
SplitDouble(s) ==
    LET hits == {k \in 1..(Len(s) - 1) : s[k] = "\\" /\ s[k + 1] = "\\"} IN
    IF hits = {} THEN <<s>>
    ELSE LET i == CHOOSE k \in hits : \A m \in hits : k <= m
         IN <<SubSeq(s, 1, i - 1)>> \o SplitDouble(SubSeq(s, i + 2, Len(s)))

\* the loop over rest_result: key=value items into the summary
RECURSIVE AddParams(_, _)
AddParams(summary, items) ==
    IF items = <<>> THEN summary
    ELSE LET item == Head(items) IN
         IF \E i \in 1..Len(item) : item[i] = "="
         THEN LET com == SplitOn(item, "=")
              IN AddParams(DictSet(summary, com[1], com[2]), Tail(items))
         ELSE AddParams(summary, Tail(items))

\* the stripped lines of the summary slice, joined
SumLine(g) ==
    Concat([k \in 1..(IF g.index_sum[2] > g.index_sum[1]
                      THEN g.index_sum[2] - g.index_sum[1] ELSE 0) |->
                Strip(g.lines[g.index_sum[1] + k])])

\* the end of _parser_sum without the assertion on the number of fields: the
\* entries are written until a field is missing
SummaryIntoNoCheck(g, sum_components) ==
    IF Len(sum_components) < 4
    THEN [g |-> [g EXCEPT !.summary = DictSet(@, <<"sys_info">>, sum_components[1])],
          err |-> Raise("IndexError", <<"list index">>)]
    ELSE IF Len(sum_components) < 5
    THEN [g |-> [g EXCEPT !.summary =
                    DictSet(DictSet(@, <<"sys_info">>, sum_components[1]),
                            <<"coordinates">>, Tail(SplitOn(sum_components[4], "\\")))],
          err |-> Raise("IndexError", <<"list index">>)]
    ELSE [g |-> [g EXCEPT
                   !.summary =
                       AddParams(
                           DictSet(DictSet(@, <<"sys_info">>, sum_components[1]),
                                   <<"coordinates">>,
                                   Tail(SplitOn(sum_components[4], "\\"))),
                           SplitOn(sum_components[5], "\\")),
                   !.sum_reader = TRUE],
          err |-> NoErr]

\* the end of _parser_sum keeping every token of field 3 as an atom record
SummaryIntoKeepFirst(g, sum_components) ==
    IF Len(sum_components) < 5
    THEN [g |-> g, err |-> Raise("AssertionError", <<>>)]
    ELSE [g |-> [g EXCEPT
                   !.summary =
                       AddParams(
                           DictSet(DictSet(@, <<"sys_info">>, sum_components[1]),
                                   <<"coordinates">>,
                                   SplitOn(sum_components[4], "\\")),
                           SplitOn(sum_components[5], "\\")),
                   !.sum_reader = TRUE],
          err |-> NoErr]

\* the end of _parser_sum: the fields of the archive block into the summary
SummaryInto(g, sum_components) ==
    IF Len(sum_components) < 5
    THEN [g |-> g, err |-> Raise("AssertionError", <<>>)]
    ELSE [g |-> [g EXCEPT
                   !.summary =
                       AddParams(
                           DictSet(DictSet(@, <<"sys_info">>, sum_components[1]),
                                   <<"coordinates">>,
                                   Tail(SplitOn(sum_components[4], "\\"))),
                           SplitOn(sum_components[5], "\\")),
                   !.sum_reader = TRUE],
          err |-> NoErr]

\* _parser_sum without the assertion on self.error
ParserSumNoAssert(p) ==
    IF p.err # NoErr THEN p ELSE SummaryInto(p.g, SplitDouble(SumLine(p.g)))

\* _parser_sum after its first statement, whose outcome is p
ParserSumAfter(p) ==
    IF p.err # NoErr THEN p
    ELSE IF Truthy(p.g.error_type)
    THEN [g |-> p.g,
          err |-> Raise("AssertionError",
                        <<"Error ">> \o p.g.error_type.kind
                            \o <<" found! Cannot get summary.">>)]
    ELSE SummaryInto(p.g, SplitDouble(SumLine(p.g)))

\* GaussianOut._parser_sum(self)
ParserSum(g) ==
    ParserSumAfter(IF g.parser THEN Parser(g) ELSE [g |-> g, err |-> NoErr])

\* the return of get_params once the summary was asked for with outcome r
GetParamsRet(r, param) ==
    IF r.err # NoErr THEN [g |-> r.g, err |-> r.err, ret |-> <<>>]
    ELSE IF param = <<>> THEN [g |-> r.g, err |-> NoErr, ret |-> r.g.summary]
    ELSE IF param \notin DictKeys(r.g.summary)
    THEN [g |-> r.g, err |-> Raise("KeyError", param), ret |-> <<>>]
    ELSE [g |-> r.g, err |-> NoErr, ret |-> DictGet(r.g.summary, param)]

\* GaussianOut.get_params(param): param = <<>> stands for None
GetParamsOf(g, param) ==
    GetParamsRet(IF ~g.sum_reader THEN ParserSum(g) ELSE [g |-> g, err |-> NoErr],
                 param)

\* the return of sum_params once the summary was asked for with outcome r
SumParamsRet(r) ==
    IF r.err # NoErr THEN [g |-> r.g, err |-> r.err, ret |-> <<>>]
    ELSE [g |-> r.g, err |-> NoErr,
          ret |-> [i \in 1..Len(r.g.summary) |-> r.g.summary[i][1]]]

\* GaussianOut.sum_params
SumParamsOf(g) ==
    SumParamsRet(IF ~g.sum_reader /\ g.finished THEN ParserSum(g)
                 ELSE [g |-> g, err |-> NoErr])

\* the coordinates decoded from the summary: outcome c of the decoder
CoordDecoded(g, c) == [g |-> g, err |-> c.err, ret |-> c.coord]

\* the return of coord once the summary was asked for with outcome r
CoordRet(r) ==
    IF r.err # NoErr THEN [g |-> r.g, err |-> r.err, ret |-> <<>>]
    ELSE IF <<"coordinates">> \notin DictKeys(r.g.summary)
    THEN [g |-> r.g, err |-> Raise("KeyError", <<"coordinates">>), ret |-> <<>>]
    ELSE CoordDecoded(r.g,
                      CoordinatesReader(DictGet(r.g.summary, <<"coordinates">>), "xyz"))

\* GaussianOut.coord
CoordOf(g) ==
    CoordRet(IF ~g.sum_reader /\ g.finished THEN ParserSum(g)
             ELSE [g |-> g, err |-> NoErr])

-----------------------------------------------------------------------------
(* GaussianOut.parser_optimisation and its helpers *)

\* the string contains the tokens of pat one after the other
Contains(line, pat) ==
    \E i \in 1..(Len(line) - Len(pat) + 1) : SubSeq(line, i, i + Len(pat) - 1) = pat

\* re.search(r' +Input orientation:', line)
IsInputOrientation(line) == Contains(line, <<" ", "Input", " ", "orientation:">>)

\* re.search(r' +Forces ', line)
IsForces(line) == Contains(line, <<" ", "Forces", " ">>)

\* re.match(r' SCF Done:', line)
IsScfDone(line) == StartsWith(line, <<" ", "SCF", " ", "Done:">>)

\* re.search(r'Converged\?', line)
IsConverged(line) == Contains(line, <<"Converged?">>)

\* re.split(r'\s+', line.strip())
RECURSIVE SplitWS(_)
SplitWS(s) ==
    IF \A i \in 1..Len(s) : s[i] \notin WS THEN <<s>>
    ELSE LET i == CHOOSE k \in 1..Len(s) :
                    s[k] \in WS /\ \A m \in 1..(k - 1) : s[m] \notin WS
         IN <<SubSeq(s, 1, i - 1)>> \o SplitWS(LStrip(SubSeq(s, i, Len(s))))

\* _decider_parser(converge_lines): the criteria dict, or an exception
RECURSIVE DeciderParser(_, _)
DeciderParser(converge_lines, decider) ==
    IF converge_lines = <<>> THEN [decider |-> decider, err |-> NoErr]
    ELSE LET seg == SplitWS(Strip(Head(converge_lines))) IN
         IF Len(seg) < 5
         THEN [decider |-> decider, err |-> Raise("IndexError", <<"list index">>)]
         ELSE IF ~IsFloat(seg[3])
         THEN [decider |-> decider, err |-> Raise("ValueError", <<"float">>)]
         ELSE DeciderParser(Tail(converge_lines),
                            DictSet(decider, seg[1] \o <<"_">> \o seg[2],
                                    <<seg[3], seg[5]>>))

\* a force parser that looks the symbol up with a default: a row whose atomic
\* number is not in the table gets the symbol ''
ForceParserDefault(line_list) ==
    LET items == SelectSeq(line_list, LAMBDA l : l # <<"\n">>)
        rows == [i \in 1..Len(items) |->
                    LET f == Fields(items[i])
                        n == Len(f)
                    IN IF n < 3 \/ Len(f[2]) # 1
                          \/ \E k \in (n - 2)..n : ~IsFloat(f[k])
                       THEN <<>>
                       ELSE <<(<<PeriodicTable(f[2][1])>>), f[n - 2], f[n - 1], f[n]>>]
    IN IF \E i \in 1..Len(rows) : rows[i] = <<>>
       THEN [force |-> <<>>, err |-> Raise("KeyError", <<"force record">>)]
       ELSE [force |-> rows, err |-> NoErr]

\* _force_parser(line_list): the force rows, or an exception
ForceParser(line_list) ==
    LET items == SelectSeq(line_list, LAMBDA l : l # <<"\n">>)
        rows == [i \in 1..Len(items) |->
                    LET f == Fields(items[i])
                        n == Len(f)
                    IN IF n < 2 \/ Len(f[2]) # 1 \/ PeriodicTable(f[2][1]) = ""
                          \/ n < 3 \/ \E k \in (n - 2)..n : ~IsFloat(f[k])
                       THEN <<>>
                       ELSE <<(<<PeriodicTable(f[2][1])>>), f[n - 2], f[n - 1], f[n]>>]
    IN IF \E i \in 1..Len(rows) : rows[i] = <<>>
       THEN [force |-> <<>>, err |-> Raise("KeyError", <<"force record">>)]
       ELSE [force |-> rows, err |-> NoErr]

\* the cursors of parser_optimisation before the first line
OptStart(steps) ==
    [coordinate_start |-> 0, coordinate_end |-> 0, energy |-> <<"0">>,
     force_start |-> 0, force_end |-> 0, steps |-> steps, err |-> NoErr]

\* the cursors after the coordinate / force / energy tests on line index (0-based)
OptCursors(lines, index, c) ==
    LET line == lines[index + 1]
        c1 == IF IsDash(line) /\ IsInputOrientation(PyAt(lines, index - 4))
              THEN [c EXCEPT !.coordinate_start = index + 1]
              ELSE IF IsDash(line) /\ c.coordinate_start # 0 /\ c.coordinate_end = 0
              THEN [c EXCEPT !.coordinate_end = index]
              ELSE c
        c2 == IF IsDash(line) /\ IsForces(PyAt(lines, index - 2))
              THEN [c1 EXCEPT !.force_start = index + 1,
                              !.force_end = (index + 1)
                                  + (c1.coordinate_end - c1.coordinate_start)]
              ELSE c1
    IN IF ~IsScfDone(line) THEN c2
       ELSE LET f == SplitWS(Strip(line)) IN
            IF Len(f) < 5 THEN [c2 EXCEPT !.err = Raise("IndexError", <<"list index">>)]
            ELSE IF ~IsFloat(f[5]) THEN [c2 EXCEPT !.err = Raise("ValueError", <<"float">>)]
            ELSE [c2 EXCEPT !.energy = f[5]]

\* a step emission that keeps only the newest step
OptEmitReplace(lines, index, c) ==
    LET coord == CoordinatesReader(Slice(lines, c.coordinate_start, c.coordinate_end),
                                   "out")
        force == ForceParser(Slice(lines, c.force_start, c.force_end))
        conv == DeciderParser(Slice(lines, index + 1, index + 5), <<>>)
    IN IF coord.err # NoErr THEN [c EXCEPT !.err = coord.err]
       ELSE IF force.err # NoErr THEN [c EXCEPT !.err = force.err]
       ELSE IF conv.err # NoErr THEN [c EXCEPT !.err = conv.err]
       ELSE [c EXCEPT !.coordinate_start = 0, !.coordinate_end = 0,
                      !.steps = << [coord |-> coord.coord,
                                    force |-> force.force,
                                    energy |-> c.energy,
                                    converge |-> conv.decider] >>]

\* the step emitted at a 'Converged?' line, with the cursors reset afterwards
OptEmit(lines, index, c) ==
    LET coord == CoordinatesReader(Slice(lines, c.coordinate_start, c.coordinate_end),
                                   "out")
        force == ForceParser(Slice(lines, c.force_start, c.force_end))
        conv == DeciderParser(Slice(lines, index + 1, index + 5), <<>>)
    IN IF coord.err # NoErr THEN [c EXCEPT !.err = coord.err]
       ELSE IF force.err # NoErr THEN [c EXCEPT !.err = force.err]
       ELSE IF conv.err # NoErr THEN [c EXCEPT !.err = conv.err]
       ELSE [c EXCEPT !.coordinate_start = 0, !.coordinate_end = 0,
                      !.steps = Append(@, [coord |-> coord.coord,
                                           force |-> force.force,
                                           energy |-> c.energy,
                                           converge |-> conv.decider])]

\* the loop of parser_optimisation from line index (0-based) on
RECURSIVE OptScan(_, _, _)
OptScan(lines, index, c) ==
    IF index >= Len(lines) \/ c.err # NoErr THEN c
    ELSE LET c1 == OptCursors(lines, index, c)
             c2 == IF c1.err = NoErr /\ IsConverged(lines[index + 1])
                   THEN OptEmit(lines, index, c1) ELSE c1
         IN OptScan(lines, index + 1, c2)

\* GaussianOut.parser_optimisation(self)
ParserOptimisation(g) ==
    IF ~g.finished
    THEN [g |-> g, err |-> Raise("ValueError", <<"Unfinished g16 job!">>), ret |-> <<>>]
    ELSE LET c == OptScan(g.lines, 0, OptStart(g.opt_steps))
         IN [g |-> [g EXCEPT !.opt_steps = c.steps], err |-> c.err, ret |-> <<>>]

\* GaussianOut.get_opt_step(step)
GetOptStepOf(g, step) ==
    IF step >= Len(g.opt_steps) \/ step < -Len(g.opt_steps)
    THEN [g |-> g, err |-> Raise("IndexError", <<"list index">>), ret |-> <<>>]
    ELSE [g |-> g, err |-> NoErr, ret |-> PyAt(g.opt_steps, step)]

-----------------------------------------------------------------------------
(* The readers of file_io.py *)

\* line.startswith(' Initial command:')
IsBanner(line) == StartsWith(line, <<" ", "Initial", " ", "command:">>)

\* re.match(r'-+link1-+\n', line, re.IGNORECASE)
IsLink(line) ==
    /\ Len(line) >= 4
    /\ line[1] = "--"
    /\ line[2] \in {"Link1", "link1", "LINK1"}
    /\ line[3] = "--"
    /\ line[4] = "\n"

\* lines[link_id[j]: link_id[j + 1]] for every j
Slices(lines, link_id) ==
    [j \in 1..(Len(link_id) - 1) |-> Slice(lines, link_id[j], link_id[j + 1])]

\* the outcome of a reader whose constructor calls gave made[j] on slice j:
\* the slices that reached the constructor, the objects, the first exception
Built(slices, made) ==
    LET bad == {j \in 1..Len(slices) : made[j].err # NoErr}
        n == IF bad = {} THEN Len(slices)
             ELSE CHOOSE j \in bad : \A m \in bad : j <= m
    IN [segs |-> SubSeq(slices, 1, n),
        objs |-> IF bad = {} THEN [j \in 1..Len(slices) |-> made[j].g] ELSE <<>>,
        err |-> IF bad = {} THEN NoErr ELSE made[n].err]

\* read_out of file_io.py (the splitting reader): slices and notice
ReadOutSplit(lines) ==
    LET link_id == Indices0(lines, IsBanner) \o <<Len(lines)>> IN
    IF Len(link_id) = 2 THEN [slices |-> <<lines>>, notice |-> NoNotice]
    ELSE [slices |-> Slices(lines, link_id), notice |-> Len(link_id) - 1]

\* read_out of gaussian_io/file_io.py: the whole file is one job
ReadOutWholeSplit(lines) == [slices |-> <<lines>>, notice |-> NoNotice]

\* read_in that takes only the separator lines as boundaries, as read_out does
\* with its banners
ReadInSplitNoStart(lines) ==
    LET link_id == Indices0(lines, IsLink) \o <<Len(lines)>> IN
    IF Len(link_id) = 2 THEN [slices |-> <<lines>>, notice |-> NoNotice]
    ELSE [slices |-> Slices(lines, link_id), notice |-> Len(link_id) - 1]

\* read_in: slices and notice
ReadInSplit(lines) ==
    LET link_id == <<0>> \o Indices0(lines, IsLink) \o <<Len(lines)>> IN
    IF Len(link_id) = 2 THEN [slices |-> <<lines>>, notice |-> NoNotice]
    ELSE [slices |-> Slices(lines, link_id), notice |-> Len(link_id) - 1]

-----------------------------------------------------------------------------
(* The file operations of file_io.py *)

\* nothing was written: no subfolder, no input file (a written file is kept
\* as the one-element list of its lines)
NoDisk == [sub |-> <<>>, file |-> <<>>]

\* input_lines of write_in for the list of objects: the lines of every job,
\* each followed by a '--Link1--' line
RECURSIVE JoinJobs(_)
JoinJobs(gauss_in_list) ==
    IF gauss_in_list = <<>> THEN <<>>
    ELSE ToGjf(Head(gauss_in_list)) \o << <<"--", "Link1", "--", "\n">> >>
             \o JoinJobs(Tail(gauss_in_list))

\* the branches of write_in on the type of gauss_in_list: a list of
\* GaussianIn, one GaussianIn (the first of the list here), anything else
WriteJobs(gauss_in_list, kind, file) ==
    IF kind = "list"
    THEN [file |-> <<SubSeq(JoinJobs(gauss_in_list), 1, Len(JoinJobs(gauss_in_list)) - 1)>>,
          err |-> NoErr]
    ELSE IF kind = "one"
    THEN [file |-> <<ToGjf(gauss_in_list[1])>>, err |-> NoErr]
    ELSE [file |-> file,
          err |-> Raise("TypeError",
                        <<"gauss_in_list must be a GaussianIn instance or a list thereof">>)]

\* write_in(gauss_in_list, path) of gaussian_io/file_io.py, for the suffix of
\* path and the file that was at path before
WriteInOf(gauss_in_list, kind, suffix, file) ==
    IF suffix # ".gif"
    THEN [file |-> file,
          err |-> Raise("ValueError", <<"Output path must be a .gjf file">>)]
    ELSE WriteJobs(gauss_in_list, kind, file)

\* write_in(gauss_in_list, path) of file_io.py: the path has to be a file
\* already
WriteInOldOf(gauss_in_list, kind, file) ==
    IF file = <<>>
    THEN [file |-> file, err |-> Raise("AssertionError", <<"Given path is not a file!">>)]
    ELSE IF kind \in {"list", "one"} THEN WriteJobs(gauss_in_list, kind, file)
    ELSE [file |-> file, err |-> NoErr]

\* the loop of files_distribution over the listing files: sub[k] is the
\* content of subfolder str(k), n the files put into the current subfolder i
RECURSIVE Distribute(_, _, _, _, _, _)
Distribute(files, per_folder, j, n, i, sub) ==
    IF files = <<>> THEN sub
    ELSE LET made == IF i > Len(sub) THEN Append(sub, <<>>) ELSE sub
             moved == [made EXCEPT ![i] = Append(@, Head(files))]
         IN IF ((n + 1) = per_folder /\ i # 1) \/ ((n + 1) = (per_folder + j) /\ i = 1)
            THEN Distribute(Tail(files), per_folder, j, 0, i + 1, moved)
            ELSE Distribute(Tail(files), per_folder, j, n + 1, i, moved)

\* files_distribution(root, per_folder) of gaussian_io/file_io.py on a
\* directory whose listing is files
FilesDistributionOf(files, per_folder) ==
    IF per_folder <= 0
    THEN [sub |-> <<>>,
          err |-> Raise("ValueError", <<"per_folder must be a positive integer.">>)]
    ELSE [sub |-> Distribute(files, per_folder, Len(files) % per_folder, 0, 1, <<>>),
          err |-> NoErr]

\* files_distribution(path, number) of file_io.py
FilesDistributionOldOf(files, number) ==
    IF number = 0
    THEN [sub |-> <<>>, err |-> Raise("ZeroDivisionError", <<"modulo by zero">>)]
    ELSE [sub |-> Distribute(files, number, Len(files) % number, 0, 1, <<>>),
          err |-> NoErr]

-----------------------------------------------------------------------------
(* Lines and documents the model is run on *)

Blank == <<"\n">>
Text == <<" ", "Entering", " ", "Gaussian", "\n">>
Banner == <<" ", "Initial", " ", "command:", "\n">>
Link == <<"--", "Link1", "--", "\n">>
LinkLower == <<"--", "link1", "--", "\n">>
Dash == <<" ", "-----", "\n">>

\* a complete input job as to_gjf writes it
InJob ==
    << <<"%", "mem", "=", "8", "G", "B", "\n">>,
       <<"#", " ", "PM7", "\n">>,
       Blank,
       <<"test", " ", "job", "\n">>,
       Blank,
       <<"0", " ", "1", "\n">>,
       <<"C", " ", "0.0", " ", "0.0", " ", "1.5", "\n">>,
       Blank >>

DateTok == "Thu Jan  2 03:04:05 2020"

CpuLine ==
    <<" ", "Job", " ", "cpu", " ", "time:", " ", "0", " ", "days", " ", "1", " ",
      "hours", " ", "2", " ", "minutes", " ", "3.5", " ", "seconds.", "\n">>
ElapsedLine ==
    <<" ", "Elapsed", " ", "time:", " ", "0", " ", "days", " ", "0", " ",
      "hours", " ", "1", " ", "minutes", " ", "1.5", " ", "seconds.", "\n">>
\* an earlier measurement pair of the same job, with other durations
CpuLine2 ==
    <<" ", "Job", " ", "cpu", " ", "time:", " ", "0", " ", "days", " ", "0", " ",
      "hours", " ", "3", " ", "minutes", " ", "1.5", " ", "seconds.", "\n">>
ElapsedLine2 ==
    <<" ", "Elapsed", " ", "time:", " ", "0", " ", "days", " ", "0", " ",
      "hours", " ", "2", " ", "minutes", " ", "0.0", " ", "seconds.", "\n">>
NormalLine ==
    <<" ", "Normal", " ", "termination", " ", "at ", DateTok, ".", "\n">>
NormalNoDate == <<" ", "Normal", " ", "termination", "\n">>
FileLine == <<" ", "File", " ", "lengths", "\n">>

\* ' Error termination via Lnk1e in <path> at <date>.' for a path given as tokens
ErrorLine(path) ==
    <<" ", "Error", " ", "termination", " ", "via", " ", "Lnk1e", " ", "in", " ">>
        \o path \o <<" ", "at ", DateTok, ".", "\n">>
ErrorRequest ==
    <<" ", "Error", " ", "termination", " ", "request", " ", "processed", "\n">>

ExePaths ==
    { <<"/", "opt", "/", "g16", "/", "l502", ".exe">>,
      <<"/", "g16", "/", "bin", "/", "l9999", ".exe">>,
      <<"/", "opt", "/", "g09", "/", "l502", ".exe">> }

HeaderBlock ==
    << <<" ", "Gaussian", " ", "16:", " ", "ES64L", "\n">>,
       Text,
       <<" ", "*****", "\n">>,
       <<" ", "%", "mem", "=", "8", "G", "B", "\n">>,
       Dash,
       <<" ", "#", " ", "opt", " ", "PM7", "\n">>,
       Dash,
       <<" ", "1/18=20;", "\n">>,
       Dash,
       <<" ", "test", " ", "job", "\n">>,
       Dash,
       <<" ", "Symbolic", " ", "Z-matrix:", "\n">>,
       <<" ", "Charge", " ", "=", " ", "0", " ", "Multiplicity", " ", "=", " ", "1",
         "\n">> >>

\* the header section of a frequency job
HeaderFreq ==
    [HeaderBlock EXCEPT ![6] = <<" ", "#", " ", "opt", " ", "Freq", " ", "PM7", "\n">>]

CoordTable ==
    << <<" ", "Input", " ", "orientation:", "\n">>,
       Dash,
       <<" ", "Center", " ", "Atomic", "\n">>,
       <<" ", "Number", " ", "Number", "\n">>,
       Dash,
       <<" ", "1", " ", "6", " ", "0", " ", "0.0", " ", "0.0", " ", "1.5", "\n">>,
       Dash >>

\* a coordinate table with one oxygen atom
CoordTableO ==
    [CoordTable EXCEPT ![6] =
        <<" ", "1", " ", "8", " ", "0", " ", "0.0", " ", "0.0", " ", "0.0", "\n">>]

ScfLine(e) ==
    <<" ", "SCF", " ", "Done:", " ", "E(RPM7)", " ", "=", " ", e, " ", "A.U.", "\n">>

ForceTable ==
    << Dash,
       <<" ", "Center", " ", "Atomic", " ", "Forces", " ", "(Hartrees/Bohr)", "\n">>,
       <<" ", "Number", " ", "Number", "\n">>,
       Dash,
       <<" ", "1", " ", "6", " ", "0.0", " ", "0.0", " ", "-1", "\n">>,
       Dash >>

Criterion(a, b) ==
    <<" ", a, " ", b, " ", "0.0", " ", "1.5", " ", "YES", "\n">>

ConvergedBlock ==
    << <<" ", "Item", " ", "Value", " ", "Threshold", " ", "Converged?", "\n">>,
       Criterion("Maximum", "Force"),
       Criterion("RMS", "Force"),
       Criterion("Maximum", "Displacement"),
       Criterion("RMS", "Displacement") >>

\* the text of optimisation step k: the first step has a force table
StepBlock(k) ==
    CoordTable \o <<ScfLine(IF k = 1 THEN "-1" ELSE "1.5")>>
        \o (IF k = 1 THEN ForceTable ELSE <<>>) \o ConvergedBlock

\* the text of a step whose marker follows two coordinate tables
TwoTableStep == CoordTable \o CoordTableO \o <<ScfLine("1.5")>> \o ConvergedBlock

RECURSIVE StepBlocks(_)
StepBlocks(n) == IF n = 0 THEN <<>> ELSE StepBlocks(n - 1) \o StepBlock(n)

\* archive block with five fields and one atom; the double backslash before
\* field 3 is wrapped over two lines
ArchGood ==
    << <<" ", "1", "\\", "1", "\\", "GINC", "\\", "\\", "#", " ", "PM7", "\\", "\\",
         "title", "\\", "\n">>,
       <<" ", "\\", "0", ",", "1", "\\", "C", ",", "0.0", ",", "0.0", ",", "1.5",
         "\\", "\\", "HF", "=", "-1", "\\", "State", "=", "1", "\\", "NoEq",
         "\\", "\\", "@", "\n">> >>

\* archive block with four fields only
ArchShort ==
    << <<" ", "1", "\\", "1", "\\", "GINC", "\\", "\\", "#", " ", "PM7", "\n">>,
       <<" ", "\\", "\\", "title", "\\", "\\", "@", "\n">> >>

\* archive block with five fields and two atoms
ArchTwo ==
    << <<" ", "1", "\\", "1", "\\", "GINC", "\\", "\\", "#", " ", "PM7", "\\", "\\",
         "title", "\\", "\\", "0", ",", "1", "\\", "C", ",", "0.0", ",", "0.0", ",",
         "1.5", "\\", "H", ",", "0.0", ",", "0.0", ",", "0.0", "\n">>,
       <<" ", "\\", "\\", "HF", "=", "-1", "\\", "\\", "@", "\n">> >>

Archives == {ArchGood, ArchTwo, ArchShort, <<>>}

\* archive blocks whose field 4 holds a token with two '=' and a token whose
\* key is 'sys_info'
ArchEq ==
    << <<" ", "1", "\\", "1", "\\", "GINC", "\\", "\\", "#", " ", "PM7", "\\", "\\",
         "title", "\\", "\\", "0", ",", "1", "\\", "C", ",", "0.0", ",", "0.0", ",",
         "1.5", "\n">>,
       <<" ", "\\", "\\", "HF", "=", "-1", "\\", "Note", "=", "1", "=", "2", "\\",
         "\\", "@", "\n">> >>

ArchKey ==
    [ArchEq EXCEPT ![2] =
        <<" ", "\\", "\\", "HF", "=", "-1", "\\", "sys_info", "=", "0", "\\",
          "\\", "@", "\n">>]

\* the ends of a segment
Tails ==
    { <<CpuLine, ElapsedLine, NormalLine>>,
      <<CpuLine, ElapsedLine, NormalNoDate>>,
      <<Text, CpuLine, ElapsedLine, FileLine>>,
      <<ErrorRequest, CpuLine, ElapsedLine, FileLine>>,
      <<CpuLine, ElapsedLine, Text>>,
      <<CpuLine2, ElapsedLine2, Text, CpuLine, ElapsedLine, NormalLine>>,
      <<Text, CpuLine, Text, FileLine>>,
      <<Text, Text, CpuLine, NormalLine>>,
      <<Text, Text, Text, FileLine>> }
    \cup { <<ErrorLine(p), CpuLine, ElapsedLine, FileLine>> : p \in ExePaths }

\* the ends of the segments that hold optimisation steps: a normal end, an
\* error end and an unfinished end
StepTails ==
    { <<CpuLine, ElapsedLine, NormalLine>>,
      <<ErrorLine(<<"/", "opt", "/", "g16", "/", "l502", ".exe">>), CpuLine, ElapsedLine,
        FileLine>>,
      <<CpuLine, ElapsedLine, Text>> }

\* full-size output segments: banner, optional header, steps, archive, tail
JobSegments ==
    { <<Text, Banner>> \o h \o a \o t :
        h \in {HeaderBlock, HeaderFreq, <<>>}, a \in Archives, t \in Tails }
    \cup
    { <<Text, Banner>> \o HeaderBlock \o StepBlocks(n) \o a \o t :
        n \in 1..MaxSteps, a \in {ArchGood, <<>>}, t \in StepTails }
    \cup
    { <<Text, Banner>> \o HeaderBlock \o TwoTableStep \o ArchGood \o t : t \in StepTails }
    \cup
    { <<Text, Banner>> \o HeaderBlock \o a \o <<CpuLine, ElapsedLine, NormalLine>> :
        a \in {ArchEq, ArchKey} }

\* short segments: filler lines closed by a terminal line or by more filler
ShortSegments ==
    {<<>>} \cup
    { [i \in 1..n |-> IF i = n THEN last ELSE IF i = n - 3 THEN e ELSE Text] :
        n \in 1..MaxShort, last \in {NormalLine, FileLine, Text},
        e \in {Text, ErrorLine(<<"/", "g16", "/", "l502", ".exe">>)} }

OutSegments == JobSegments \cup ShortSegments

\* a finished job of the output dialect, as one piece of a document
OutJob == HeaderBlock \o ArchGood \o <<CpuLine, ElapsedLine, NormalLine>>

Pieces ==
    { <<Banner>>, <<Link>>, <<LinkLower>>, <<Text>>, <<Blank>>, InJob, OutJob }

RECURSIVE DocsOf(_)
DocsOf(n) ==
    IF n = 0 THEN {<<>>}
    ELSE DocsOf(n - 1) \cup { d \o q : d \in DocsOf(n - 1), q \in Pieces }

Documents == DocsOf(MaxPieces)

\* the listings of a directory of up to MaxFiles files, the files being named
\* by their numbers: the order of a listing is the file system's
RECURSIVE ListingsOf(_)
ListingsOf(n) ==
    IF n = 0 THEN {<<>>}
    ELSE ListingsOf(n - 1)
             \cup { Append(l, f) : l \in { m \in ListingsOf(n - 1) : Len(m) = n - 1 },
                                   f \in 1..MaxFiles }

Listings ==
    { l \in ListingsOf(MaxFiles) : \A a, b \in 1..Len(l) : a # b => l[a] # l[b] }

\* the segments of a two-job output file: a finished optimisation job, a
\* finished job with a two-atom archive, a job ended by an error and an
\* unfinished job, each beginning with its banner
PairSegments ==
    { <<Banner>> \o HeaderBlock \o StepBlocks(1) \o ArchGood
          \o <<CpuLine, ElapsedLine, NormalLine>>,
      <<Banner>> \o HeaderBlock \o ArchTwo \o <<CpuLine2, ElapsedLine2, NormalLine>>,
      <<Banner>> \o HeaderBlock \o StepBlocks(1)
          \o <<ErrorLine(<<"/", "opt", "/", "g16", "/", "l502", ".exe">>), CpuLine,
               ElapsedLine, FileLine>>,
      <<Banner>> \o HeaderBlock \o <<CpuLine, ElapsedLine, Text>> }

PairDocs == { a \o b : a \in PairSegments, b \in PairSegments }

\* the lines of header sections: directives, route lines, and the title and
\* charge lines behind the first blank line (or nothing, or a cut-off end)
MemLine == <<"%", "mem", "=", "8", "G", "B", "\n">>
NprocLine == <<"%", "nprocshared", "=", "2", "\n">>
TitleLine == <<"test", " ", "job", "\n">>

SysParts == { <<>>, <<MemLine>>, <<MemLine, NprocLine>>, <<NprocLine, MemLine>> }

RouteParts ==
    { <<>>,
      << <<"#", " ", "PM7", "\n">> >>,
      << <<"#", " ", "PM7", "\n">>, <<"#", " ", "opt", "\n">> >>,
      << <<"#", " ", "opt", " ", "#", " ", "Freq", "\n">> >>,
      << <<"#", "p", " ", "opt", "\n">> >> }

EndParts ==
    { <<Blank, t, Blank, c>> :
        t \in {TitleLine, Blank},
        c \in { <<"0", " ", "1", "\n">>, <<"-1", " ", "2", "\n">> } }
    \cup { <<>>, <<Blank, TitleLine>> }

HeaderDocs == { s \o r \o e : s \in SysParts, r \in RouteParts, e \in EndParts }

\* input files: directives and route, title and charge, atoms, and a closing
\* blank line or none; two-job files; a file without a blank line
AtomC == <<"C", " ", "0.0", " ", "0.0", " ", "1.5", "\n">>
AtomH == <<"H", " ", "0", " ", "-1", " ", "3.5", "\n">>

InHeads ==
    { <<MemLine, <<"#", " ", "PM7", "\n">> >>,
      << <<"#", " ", "opt", " ", "#", " ", "Freq", "\n">> >>,
      << <<"#", " ", "opt", " ", "geom", "=", "check", "\n">> >> }

InJobs ==
    { h \o <<Blank, TitleLine, Blank, <<"0", " ", "1", "\n">> >> \o a \o e :
        h \in InHeads, a \in {<<>>, <<AtomC>>, <<AtomC, AtomH>>}, e \in {<<Blank>>, <<>>} }

InDocs ==
    InJobs
    \cup { a \o <<Link>> \o b :
             a \in {InJob}, b \in { j \in InJobs : Len(j) = 8 } }
    \cup { <<MemLine>> }

\* atom records of the output dialect: a row of a coordinate table
\* (centre, atomic number, type, x, y, z) and a row of a forces table
\* (centre, atomic number, fx, fy, fz)
CoordRow(number) ==
    <<" ", "1", " ", number, " ", "0", " ", "0.0", " ", "0.0", " ", "1.5", "\n">>

ForceRow(number) ==
    <<" ", "1", " ", number, " ", "0.0", " ", "0.0", " ", "-1", "\n">>

\* atomic numbers: carbon, oxygen, and two that are not in the lookup table
AtomicNumbers == {"6", "8", "2", "99"}

Records ==
    {CoordRow(z) : z \in AtomicNumbers} \cup {ForceRow(z) : z \in AtomicNumbers}
        \cup {Blank}

RECURSIVE RecordListsOf(_)
RecordListsOf(n) ==
    IF n = 0 THEN {<<>>}
    ELSE RecordListsOf(n - 1)
             \cup { Append(l, r) : l \in RecordListsOf(n - 1), r \in Records }

RecordLists == RecordListsOf(MaxRows)

-----------------------------------------------------------------------------
(* The state machine *)

Accessors == {"get_params", "coord", "sum_params", "parser_optimisation",
              "get_opt_step"}

Params == { <<>>, <<"HF">>, <<"coordinates">> }

StepIndexes == {0, 1}

InitCommon ==
    /\ pc = "ready"
    /\ op = "none"
    /\ segs = <<>>
    /\ notice = NoNotice
    /\ gin = <<>>
    /\ gout = <<>>
    /\ err = NoErr
    /\ ret = <<>>
    /\ calls = 0
    /\ arg = <<>>
    /\ disk = NoDisk

\* Spec: one output segment handed to the GaussianOut constructor
Init == doc \in OutSegments /\ InitCommon

\* SpecSplit: one document handed to a reader
InitSplit == doc \in Documents /\ InitCommon

\* a reader has run: split is its slices and notice, b what it built
Read(name, split, b, isOut) ==
    /\ pc = "ready"
    /\ pc' = "done"
    /\ op' = name
    /\ segs' = b.segs
    /\ notice' = split.notice
    /\ gout' = IF isOut THEN b.objs ELSE <<>>
    /\ gin' = IF isOut THEN <<>> ELSE b.objs
    /\ err' = b.err
    /\ UNCHANGED <<doc, ret, calls, arg, disk>>

\* the GaussianOut objects of the slices
OutObjects(slices) == Built(slices, [j \in 1..Len(slices) |-> Construct(slices[j])])

\* the GaussianIn objects of the slices
InObjects(slices) == Built(slices, [j \in 1..Len(slices) |-> GaussianIn(slices[j])])

ReadOut ==
    Read("read_out", ReadOutSplit(doc), OutObjects(ReadOutSplit(doc).slices), TRUE)

ReadOutWhole ==
    Read("read_out_whole", ReadOutWholeSplit(doc),
         OutObjects(ReadOutWholeSplit(doc).slices), TRUE)

ReadIn ==
    Read("read_in", ReadInSplit(doc), InObjects(ReadInSplit(doc).slices), FALSE)

\* GaussianOut(out_lines=doc, name)
ConstructOut ==
    Read("construct", [slices |-> <<doc>>, notice |-> NoNotice], OutObjects(<<doc>>),
         TRUE)

\* an accessor whose step list is one list shared by all the objects
AccessShared(name, i, r) ==
    /\ pc = "done"
    /\ calls < MaxCalls
    /\ calls' = calls + 1
    /\ op' = name
    /\ gout' = [j \in 1..Len(gout) |->
                   IF j = i THEN r.g ELSE [gout[j] EXCEPT !.opt_steps = r.g.opt_steps]]
    /\ err' = r.err
    /\ ret' = r.ret
    /\ UNCHANGED <<doc, pc, segs, notice, gin, arg, disk>>

\* an accessor of object i has run with outcome r
Access(name, i, r) ==
    /\ pc = "done"
    /\ calls < MaxCalls
    /\ calls' = calls + 1
    /\ op' = name
    /\ gout' = [gout EXCEPT ![i] = r.g]
    /\ err' = r.err
    /\ ret' = r.ret
    /\ UNCHANGED <<doc, pc, segs, notice, gin, arg, disk>>

GetParams == \E i \in 1..Len(gout), param \in Params :
                 Access("get_params", i, GetParamsOf(gout[i], param))

Coord == \E i \in 1..Len(gout) : Access("coord", i, CoordOf(gout[i]))

SumParams == \E i \in 1..Len(gout) : Access("sum_params", i, SumParamsOf(gout[i]))

ParserOptimisationCall ==
    \E i \in 1..Len(gout) :
        Access("parser_optimisation", i, ParserOptimisation(gout[i]))

GetOptStep == \E i \in 1..Len(gout), step \in StepIndexes :
                  Access("get_opt_step", i, GetOptStepOf(gout[i], step))

Next ==
    \/ ConstructOut
    \/ GetParams
    \/ Coord
    \/ SumParams
    \/ ParserOptimisationCall
    \/ GetOptStep

NextSplit ==
    \/ ReadOut
    \/ ReadOutWhole
    \/ ReadIn

\* SpecHeader: the lines of a header section handed to Header, and the
\* header written back by get_header and read again
InitHeader == doc \in HeaderDocs /\ InitCommon

\* Header(header_lines) has run on lines with outcome r
HeaderBuilt(name, r) ==
    /\ op' = name
    /\ pc' = "done"
    /\ gin' = IF r.err = NoErr THEN Append(gin, [header |-> r.h, coord |-> <<>>])
              ELSE gin
    /\ err' = r.err
    /\ UNCHANGED <<doc, segs, notice, gout, ret, calls, arg, disk>>

\* Header(header_lines=doc)
HeaderNew == pc = "ready" /\ HeaderBuilt("header", Header(doc))

\* h.get_header() on the newest Header
GetHeaderCall ==
    /\ pc = "done"
    /\ gin # <<>>
    /\ op # "get_header"
    /\ calls < MaxCalls
    /\ calls' = calls + 1
    /\ op' = "get_header"
    /\ ret' = GetHeader(gin[Len(gin)].header)
    /\ err' = NoErr
    /\ UNCHANGED <<doc, pc, segs, notice, gin, gout, arg, disk>>

\* Header(header_lines=ret) on the lines get_header returned
HeaderAgain == pc = "done" /\ op = "get_header" /\ HeaderBuilt("header_again", Header(ret))

NextHeader ==
    \/ HeaderNew
    \/ GetHeaderCall
    \/ HeaderAgain

\* SpecPair: a two-job output file read by read_out, and accessors called on
\* its two GaussianOut objects in any order
InitPair == doc \in PairDocs /\ InitCommon

NextPair ==
    \/ ReadOut
    \/ GetParams
    \/ Coord
    \/ SumParams
    \/ ParserOptimisationCall
    \/ GetOptStep

\* SpecIn: an input file read by read_in, its objects written back by to_gjf
\* and write_in, and the lines of to_gjf read again
InitIn == doc \in InDocs /\ InitCommon

Suffixes == {".gjf", ".gif", ".com", ""}

Kinds == {"list", "one", "other"}

\* g.to_gjf() on object k of the list
ToGjfCall ==
    /\ pc = "done"
    /\ calls < MaxCalls
    /\ calls' = calls + 1
    /\ \E k \in 1..Len(gin) :
          /\ arg' = k
          /\ ret' = ToGjf(gin[k])
    /\ op' = "to_gjf"
    /\ err' = NoErr
    /\ UNCHANGED <<doc, pc, segs, notice, gin, gout, disk>>

\* GaussianIn(in_lines=ret) on the lines to_gjf returned; ret becomes the
\* list holding the new object
GaussianInAgain ==
    /\ pc = "done"
    /\ op = "to_gjf"
    /\ op' = "gaussian_in_again"
    /\ ret' = <<GaussianIn(ret).g>>
    /\ err' = GaussianIn(ret).err
    /\ UNCHANGED <<doc, pc, segs, notice, gin, gout, calls, arg, disk>>

\* a write_in call has run with outcome r
Written(name, a, r) ==
    /\ pc = "done"
    /\ calls < MaxCalls
    /\ calls' = calls + 1
    /\ op' = name
    /\ arg' = a
    /\ disk' = [disk EXCEPT !.file = r.file]
    /\ err' = r.err
    /\ UNCHANGED <<doc, pc, segs, notice, gin, gout, ret>>

WriteIn ==
    \E kind \in Kinds, suffix \in Suffixes :
        /\ kind = "one" => gin # <<>>
        /\ Written("write_in", [kind |-> kind, suffix |-> suffix],
                   WriteInOf(gin, kind, suffix, disk.file))

WriteInOld ==
    \E kind \in Kinds, suffix \in {".gjf", ".com"} :
        /\ kind = "one" => gin # <<>>
        /\ Written("write_in_old", [kind |-> kind, suffix |-> suffix],
                   WriteInOldOf(gin, kind, disk.file))

NextIn ==
    \/ ReadIn
    \/ ToGjfCall
    \/ GaussianInAgain
    \/ WriteIn
    \/ WriteInOld

\* SpecFiles: a directory, given by its listing, handed to files_distribution
InitFiles == doc \in Listings /\ InitCommon

\* a distribution has run on the directory with outcome r
Distributed(name, per_folder, r) ==
    /\ pc = "ready"
    /\ pc' = "done"
    /\ op' = name
    /\ arg' = per_folder
    /\ disk' = [disk EXCEPT !.sub = r.sub]
    /\ err' = r.err
    /\ UNCHANGED <<doc, segs, notice, gin, gout, ret, calls>>

FilesDistribution ==
    \E per_folder \in 0..MaxPer :
        Distributed("files_distribution", per_folder,
                    FilesDistributionOf(doc, per_folder))

FilesDistributionOld ==
    \E number \in 0..MaxPer :
        Distributed("files_distribution_old", number,
                    FilesDistributionOldOf(doc, number))

NextFiles ==
    \/ FilesDistribution
    \/ FilesDistributionOld

\* SpecDecode: a list of atom records handed to a decoder
InitDecode == doc \in RecordLists /\ InitCommon

\* a decoder has run on doc and returned rows or raised e
Decoded(name, rows, e) ==
    /\ pc = "ready"
    /\ pc' = "done"
    /\ op' = name
    /\ ret' = rows
    /\ err' = e
    /\ UNCHANGED <<doc, segs, notice, gin, gout, calls, arg, disk>>

\* coordinates_reader(doc, ftype='out')
DecodeTable ==
    Decoded("coordinates_reader_out", CoordinatesReader(doc, "out").coord,
            CoordinatesReader(doc, "out").err)

\* coordinates_reader(doc) of utils.py
DecodeRecords ==
    Decoded("coordinates_reader", ReadRecords(doc, <<>>).coord,
            ReadRecords(doc, <<>>).err)

\* GaussianOut._force_parser(doc)
DecodeForces ==
    Decoded("force_parser", ForceParser(doc).force, ForceParser(doc).err)

NextDecode ==
    \/ DecodeTable
    \/ DecodeRecords
    \/ DecodeForces

Spec == Init /\ [][Next]_vars

SpecHeader == InitHeader /\ [][NextHeader]_vars

SpecDecode == InitDecode /\ [][NextDecode]_vars

SpecPair == InitPair /\ [][NextPair]_vars

SpecFiles == InitFiles /\ [][NextFiles]_vars

SpecIn == InitIn /\ [][NextIn]_vars

SpecSplit == InitSplit /\ [][NextSplit]_vars

-----------------------------------------------------------------------------
(* Properties of the splitter (checked under SpecSplit) *)

\* the token t occurs in the string s
HasToken(s, t) == \E i \in 1..Len(s) : s[i] = t

NBanners(lines) == Len(Indices0(lines, IsBanner))

NLinks(lines) == Len(Indices0(lines, IsLink))

Readers == {"read_out", "read_out_whole", "read_in"}

\* the jobs of an input document: the lines between its separator lines
RECURSIVE JobsOf(_)
JobsOf(lines) ==
    IF \A i \in 1..Len(lines) : ~IsLink(lines[i]) THEN <<lines>>
    ELSE LET i == CHOOSE k \in 1..Len(lines) :
                    IsLink(lines[k]) /\ \A m \in 1..(k - 1) : ~IsLink(lines[m])
         IN <<SubSeq(lines, 1, i - 1)>> \o JobsOf(SubSeq(lines, i + 1, Len(lines)))

\* every job of the document is a job GaussianIn parses when given alone
JobsParse(lines) ==
    \A j \in 1..Len(JobsOf(lines)) : GaussianIn(JobsOf(lines)[j]).err = NoErr

\* C1: a non-empty document without boundary marker is returned as exactly one segment
\* holding all its lines, by the output readers (no ' Initial command:' line)
\* and by the input reader (no link1 separator).
C1_OneSegment ==
    (/\ pc = "done"
     /\ doc # <<>>
     /\ err = NoErr
     /\ \/ op \in {"read_out", "read_out_whole"} /\ NBanners(doc) = 0
        \/ op = "read_in" /\ NLinks(doc) = 0)
    => segs = <<doc>>

\* C2: read_out on a document with k >= 1 banner lines yields exactly k
\* segments that follow each other and together hold every line of the
\* document, the lines before the first banner included.
C2_BannerPartition ==
    (pc = "done" /\ op = "read_out" /\ err = NoErr /\ NBanners(doc) >= 1)
    => (Len(segs) = NBanners(doc) /\ Concat(segs) = doc)

\* C3: read_in on a document with k >= 1 separator lines whose jobs are each
\* parseable alone returns k+1 GaussianIn objects without raising, and each
\* of them is the object its job gives when parsed alone.
C3_LinkSegments ==
    (pc = "done" /\ op = "read_in" /\ NLinks(doc) >= 1 /\ JobsParse(doc))
    => /\ err = NoErr
       /\ Len(segs) = NLinks(doc) + 1
       /\ Len(gin) = NLinks(doc) + 1
       /\ \A j \in 1..Len(gin) : gin[j] = GaussianIn(JobsOf(doc)[j]).g

\* C3 witness: two separators around a complete job give three objects, the
\* middle one with the parsed route and atom of the job.
C3_Witness ==
    /\ pc = "done" /\ op = "read_in" /\ NLinks(doc) = 2 /\ JobsParse(doc)
    /\ Len(gin) = 3
    /\ gin[2].header.method = << <<"PM7">> >>
    /\ Len(gin[2].coord) = 1

\* C4: no segment that read_in passes on holds a separator line.
C4_StrictSeparator ==
    (pc = "done" /\ op = "read_in")
    => \A j \in 1..Len(segs) : \A i \in 1..Len(segs[j]) : ~IsLink(segs[j][i])

\* C5: a reader that returns from a non-empty document emitted the multiple-links notice exactly when it
\* produced more than one segment, and the notice carries the number of
\* segments produced.
C5_Notice ==
    (pc = "done" /\ op \in Readers /\ doc # <<>> /\ err = NoErr)
    => /\ (notice # NoNotice) <=> (Len(segs) > 1)
       /\ notice # NoNotice => notice = Len(segs)

-----------------------------------------------------------------------------
(* Properties of GaussianOut (checked under Spec) *)

\* the segment ends with a line beginning with ' File' or ' Normal'
EndsTerminal(lines) ==
    /\ lines # <<>>
    /\ \/ StartsWith(lines[Len(lines)], <<" ", "File">>)
       \/ StartsWith(lines[Len(lines)], <<" ", "Normal">>)

\* the 4th-from-last line of a segment of at least four lines
ErrorLineOf(lines) == lines[Len(lines) - 3]

BeginsErrorTermination(line) ==
    StartsWith(line, <<" ", "Error", " ", "termination">>)

\* the executable name of a line: the tokens between the last path separator
\* and the extension marker; <<>> if the line names no executable
ExeName(line) ==
    LET exts == {j \in 1..Len(line) : line[j] = ".exe"} IN
    IF exts = {} THEN <<>>
    ELSE LET j == CHOOSE k \in exts : \A m \in exts : m <= k
             seps == {k \in 1..(j - 1) : line[k] = "/"}
         IN IF seps = {} THEN <<>>
            ELSE SubSeq(line, (CHOOSE k \in seps : \A m \in seps : m <= k) + 1, j - 1)

\* C6: constructing a GaussianOut from a segment of fewer than 10 lines does
\* not raise, and the object is finished exactly when its segment has at
\* least 10 lines and ends with a ' File' or ' Normal' line.
C6_FinishedGuard ==
    /\ (pc = "done" /\ op = "construct" /\ Len(doc) < 10)
       => (err = NoErr /\ Len(gout) = 1)
    /\ gout # <<>> => (gout[1].finished <=> (Len(doc) >= 10 /\ EndsTerminal(doc)))

\* C6 witness: a 9-line segment ending with a terminal line was constructed
\* and is unfinished.
C6_Witness ==
    /\ op = "construct" /\ err = NoErr /\ gout # <<>>
    /\ Len(doc) = 9 /\ EndsTerminal(doc)
    /\ ~gout[1].finished

\* C7: for a finished segment whose 4th-from-last line begins with
\* ' Error termination' and names an executable, construction does not raise
\* and error_kind is the executable name; for a finished segment without
\* such a line, error_kind is unset.
C7_ErrorKind ==
    (pc = "done" /\ op = "construct" /\ Len(doc) >= 10 /\ EndsTerminal(doc))
    => /\ (BeginsErrorTermination(ErrorLineOf(doc)) /\ ExeName(ErrorLineOf(doc)) # <<>>)
          => /\ err = NoErr
             /\ gout # <<>>
             /\ gout[1].error_type = [set |-> TRUE, kind |-> ExeName(ErrorLineOf(doc))]
       /\ (~BeginsErrorTermination(ErrorLineOf(doc)) /\ gout # <<>>)
          => ~gout[1].error_type.set

SummaryAccessors == {"get_params", "coord", "sum_params"}

\* C8: on an object whose error_kind is set, every summary accessor fails
\* with an assertion error whose message holds the error_kind, and the
\* summary map stays empty and the summary-parsed flag unset.
C8_ErrorBlocksSummary ==
    (gout # <<>> /\ gout[1].error_type.set)
    => /\ gout[1].summary = <<>>
       /\ ~gout[1].sum_reader
       /\ op \in SummaryAccessors
          => (err.type = "AssertionError" /\ Contains(err.msg, gout[1].error_type.kind))

\* C8 witness: the third accessor call in a row on an error segment was coord
\* and failed.
C8_Witness ==
    /\ gout # <<>> /\ gout[1].error_type.set
    /\ gout[1].error_type.kind = <<"l502">>
    /\ op = "coord" /\ calls = 3
    /\ err.type = "AssertionError"

\* C9: an object whose error_kind is set never holds an optimisation step.
C9_NoStepsOnError ==
    (gout # <<>> /\ gout[1].error_type.set) => gout[1].opt_steps = <<>>

\* C10: an object constructed from a segment whose last line matches neither
\* terminal pattern is unfinished, and nothing was computed for it: no
\* error_kind, no header, zero cpu and elapsed time, no date, empty summary.
C10_UnfinishedUntouched ==
    (gout # <<>> /\ doc # <<>> /\ ~EndsTerminal(doc))
    => /\ ~gout[1].finished
       /\ ~gout[1].error_type.set
       /\ ~gout[1].has_header
       /\ gout[1].cpu_time = 0
       /\ gout[1].elapsed_time = 0
       /\ gout[1].date = <<>>
       /\ gout[1].summary = <<>>

\* C10 witness: a full-size segment with a header and time lines, but ending
\* with another line, was constructed.
C10_Witness ==
    /\ op = "construct" /\ gout # <<>>
    /\ Len(doc) >= 10 /\ ~EndsTerminal(doc)
    /\ \E i \in 1..Len(doc) : IsChargeEq(doc[i])
    /\ \E i \in 1..Len(doc) : IsCpu(doc[i])
    /\ ~gout[1].finished

-----------------------------------------------------------------------------
(* Properties of the time stamps (checked under Spec) *)

\* positions (1-based) of the ' Job cpu time:' lines the backward scan visits
CpuLinesOf(lines) == {i \in 3..Len(lines) : IsCpu(lines[i])}

LastCpu(lines) == CHOOSE i \in CpuLinesOf(lines) : \A j \in CpuLinesOf(lines) : j <= i

\* days + hours + minutes + seconds of the first four numbers of a line, in
\* tenths of a second
DurationOf(line) ==
    FloatsOf(line)[1] * 86400 + FloatsOf(line)[2] * 3600
        + FloatsOf(line)[3] * 60 + FloatsOf(line)[4]

\* a finished, error-free object is held
FinishedClean == gout # <<>> /\ gout[1].finished /\ ~gout[1].error_type.set

\* C13: right after constructing a finished, error-free, non-frequency
\* segment, cpu_time is the duration of the last ' Job cpu time:' line and
\* elapsed_time the duration of the line after it; the line of 0 days,
\* 1 hour, 2 minutes, 3.5 seconds gives 3723.5 s.
C13_LastPair ==
    (/\ op = "construct" /\ err = NoErr /\ FinishedClean
     /\ ~HasFreq(gout[1].header.method)
     /\ CpuLinesOf(doc) # {})
    => /\ gout[1].cpu_time = DurationOf(doc[LastCpu(doc)])
       /\ gout[1].elapsed_time = DurationOf(doc[LastCpu(doc) + 1])
       /\ doc[LastCpu(doc)] = CpuLine => gout[1].cpu_time = 37235

\* C13 witness: a non-frequency segment with two measurement pairs was
\* constructed and holds the durations of the last pair.
C13_Witness ==
    /\ op = "construct" /\ err = NoErr /\ FinishedClean
    /\ ~HasFreq(gout[1].header.method)
    /\ Cardinality(CpuLinesOf(doc)) = 2
    /\ gout[1].cpu_time = 37235
    /\ gout[1].elapsed_time = 615

\* C14: right after constructing a finished frequency job whose segment
\* holds two measurement pairs, cpu_time and elapsed_time are each the sum
\* over both pairs.
C14_FreqTwice ==
    (/\ op = "construct" /\ err = NoErr /\ FinishedClean
     /\ HasFreq(gout[1].header.method)
     /\ Cardinality(CpuLinesOf(doc)) = 2)
    => /\ gout[1].cpu_time =
              DurationOf(doc[LastCpu(doc)])
                  + DurationOf(doc[CHOOSE i \in CpuLinesOf(doc) : i # LastCpu(doc)])
       /\ gout[1].elapsed_time =
              DurationOf(doc[LastCpu(doc) + 1])
                  + DurationOf(doc[(CHOOSE i \in CpuLinesOf(doc) : i # LastCpu(doc)) + 1])

\* C15: constructing a GaussianOut from a finished segment without error
\* line, whose last line is a ' File' line or carries a date, never raises,
\* whatever line follows a ' Job cpu time:' line.
C15_ScanNeverFails ==
    (/\ pc = "done" /\ op = "construct"
     /\ Len(doc) >= 10
     /\ doc[Len(doc)] \in {FileLine, NormalLine}
     /\ ~BeginsErrorTermination(ErrorLineOf(doc)))
    => err = NoErr

\* C16: a finished, error-free object keeps the cpu_time, elapsed_time and
\* finished_date it had right after construction, whatever accessors ran.
C16_TimesComputedOnce ==
    FinishedClean
    => /\ gout[1].cpu_time = Construct(doc).g.cpu_time
       /\ gout[1].elapsed_time = Construct(doc).g.elapsed_time
       /\ gout[1].date = Construct(doc).g.date

-----------------------------------------------------------------------------
(* Properties of the summary (checked under Spec) *)

ArchStarts(lines) == {i \in 3..Len(lines) : IsArchStart(lines[i])}

ArchEnds(lines) == {i \in 3..Len(lines) : IsArchEnd(lines[i])}

\* the lines of the archive block of a segment: from its ' 1\1\' line to
\* its '@' line; no line when the segment has no such block
ArchiveBlock(lines) ==
    IF ArchStarts(lines) = {} \/ ArchEnds(lines) = {} THEN <<>>
    ELSE SubSeq(lines,
                CHOOSE i \in ArchStarts(lines) : \A j \in ArchStarts(lines) : j <= i,
                CHOOSE i \in ArchEnds(lines) : \A j \in ArchEnds(lines) : j <= i)

\* the double-delimited fields of the archive block
ArchiveFields(lines) ==
    SplitDouble(Concat([k \in 1..Len(ArchiveBlock(lines)) |->
                            Strip(ArchiveBlock(lines)[k])]))

\* C17: on a finished, error-free object whose archive block has fewer than
\* 5 double-delimited fields (or is empty), every summary accessor raises an
\* assertion error, and the summary map stays empty and the summary-parsed
\* flag unset, at the first attempt and at every later one.
C17_ShortArchiveRaises ==
    (FinishedClean /\ Len(ArchiveFields(doc)) < 5)
    => /\ gout[1].summary = <<>>
       /\ ~gout[1].sum_reader
       /\ op \in SummaryAccessors => err.type = "AssertionError"

\* C17 witness: the second summary request on a segment whose archive block
\* has four fields failed like the first.
C17_Witness ==
    /\ FinishedClean
    /\ Len(ArchiveFields(doc)) = 4
    /\ op = "get_params" /\ calls = 2
    /\ err.type = "AssertionError"
    /\ gout[1].summary = <<>>

\* the atom-record tokens of the archive block: the single-delimited tokens
\* of field 3 after the first one
AtomTokens(lines) == Tail(SplitOn(ArchiveFields(lines)[4], "\\"))

\* the text of a token before its first comma
BeforeComma(tok) == SplitOn(tok, ",")[1]

\* C18: a finished segment without error line gives a finished object with
\* error_kind unset; once its summary is parsed the coordinates entry holds
\* the tokens of archive field 3 after the first, in order, and coord
\* returns one atom record per token, in order.
C18_FinalCoordinates ==
    /\ (/\ op = "construct" /\ err = NoErr
        /\ Len(doc) >= 10 /\ EndsTerminal(doc)
        /\ ~BeginsErrorTermination(ErrorLineOf(doc)))
       => FinishedClean
    /\ (FinishedClean /\ gout[1].sum_reader)
       => DictGet(gout[1].summary, <<"coordinates">>) = AtomTokens(doc)
    /\ (FinishedClean /\ op = "coord" /\ Len(ArchiveFields(doc)) >= 5)
       => /\ err = NoErr
          /\ Len(ret) = Len(AtomTokens(doc))
          /\ \A i \in 1..Len(ret) : ret[i][1] = BeforeComma(AtomTokens(doc)[i])

\* C18 witness: coord on the segment with the 1-atom archive block returned
\* a list of length 1 holding that atom.
C18_Witness ==
    /\ FinishedClean
    /\ op = "coord" /\ err = NoErr
    /\ Len(AtomTokens(doc)) = 1
    /\ ret = << <<(<<"C">>), (<<"0.0">>), (<<"0.0">>), (<<"1.5">>)>> >>

\* the single-delimited tokens of archive field 4 that hold a '='
PropertyTokens(lines) ==
    SelectSeq(SplitOn(ArchiveFields(lines)[5], "\\"), LAMBDA t : HasToken(t, "="))

\* the text of a token before its first '=' and the full text after it
KeyOf(tok) == SplitOn(tok, "=")[1]

ValueOf(tok) == SubSeq(tok, Len(KeyOf(tok)) + 2, Len(tok))

Reserved == { <<"sys_info">>, <<"coordinates">> }

\* C28: once the summary is parsed, sys_info is archive field 0 and the
\* coordinates entry the atom tokens of field 3 (no property token has
\* overwritten them); every token key=value of field 4 gives the entry
\* key -> value, value being the full text after the '='; and the map has
\* no other entry.
C28_PropertyMap ==
    (FinishedClean /\ gout[1].sum_reader)
    => /\ DictGet(gout[1].summary, <<"sys_info">>) = ArchiveFields(doc)[1]
       /\ DictGet(gout[1].summary, <<"coordinates">>) = AtomTokens(doc)
       /\ \A i \in 1..Len(PropertyTokens(doc)) :
              KeyOf(PropertyTokens(doc)[i]) \notin Reserved
              => /\ KeyOf(PropertyTokens(doc)[i]) \in DictKeys(gout[1].summary)
                 /\ DictGet(gout[1].summary, KeyOf(PropertyTokens(doc)[i]))
                        = ValueOf(PropertyTokens(doc)[i])
       /\ DictKeys(gout[1].summary) =
              Reserved \cup {KeyOf(PropertyTokens(doc)[i]) : i \in 1..Len(PropertyTokens(doc))}

-----------------------------------------------------------------------------
(* Properties of the optimisation steps (checked under Spec) *)

\* positions (1-based) of the 'Converged?' marker lines
Markers(lines) == {i \in 1..Len(lines) : IsConverged(lines[i])}

\* position of the k-th marker
MarkerAt(lines, k) ==
    CHOOSE i \in Markers(lines) : Cardinality({j \in Markers(lines) : j <= i}) = k

\* the energy text of the last ' SCF Done:' line before position i
EnergyBefore(lines, i) ==
    LET scf == {j \in 1..(i - 1) : IsScfDone(lines[j])}
    IN IF scf = {} THEN <<"0">>
       ELSE <<lines[CHOOSE j \in scf : \A m \in scf : m <= j][10]>>

\* C19: the first accessor call on a finished, error-free object being
\* parser_optimisation, it returns and leaves one step per 'Converged?'
\* marker of the segment, in the order of the markers, each with a numeric
\* energy (the one of the last ' SCF Done:' line before its marker) and
\* exactly 4 convergence criteria.
C19_StepPerMarker ==
    (FinishedClean /\ op = "parser_optimisation" /\ calls = 1)
    => /\ err = NoErr
       /\ Len(gout[1].opt_steps) = Cardinality(Markers(doc))
       /\ \A k \in 1..Len(gout[1].opt_steps) :
            /\ IsFloat(gout[1].opt_steps[k].energy)
            /\ gout[1].opt_steps[k].energy = EnergyBefore(doc, MarkerAt(doc, k))
            /\ Len(gout[1].opt_steps[k].converge) = 4

\* C19 witness: one call on a segment with 3 markers left 3 steps.
C19_Witness ==
    /\ FinishedClean /\ op = "parser_optimisation" /\ calls = 1
    /\ Cardinality(Markers(doc)) = 3
    /\ Len(gout[1].opt_steps) = 3
    /\ gout[1].opt_steps[1].energy = <<"-1">>
    /\ gout[1].opt_steps[3].energy = <<"1.5">>

\* C20: whatever number of parser_optimisation calls ran on a finished
\* object, its step collection is empty (no call yet) or the collection one
\* call leaves.
C20_Reinvocable ==
    (gout # <<>> /\ gout[1].finished)
    => \/ gout[1].opt_steps = <<>>
       \/ gout[1].opt_steps = ParserOptimisation(Construct(doc).g).g.opt_steps

\* a step list was computed by the first accessor call on a finished,
\* error-free object
FirstScan == FinishedClean /\ op = "parser_optimisation" /\ calls = 1 /\ err = NoErr

\* the position of the marker before the k-th one, 0 for the first
PrevMarker(lines, k) == IF k = 1 THEN 0 ELSE MarkerAt(lines, k - 1)

\* C26: a step whose marker is not preceded by a forces heading since the
\* marker before (or the segment start) has an empty force list.
C26_NoStaleForces ==
    FirstScan
    => \A k \in 1..Len(gout[1].opt_steps) :
           (\A i \in (PrevMarker(doc, k) + 1)..(MarkerAt(doc, k) - 1) :
                ~HasToken(doc[i], "Forces"))
           => gout[1].opt_steps[k].force = <<>>

\* the heading of the last 'Input orientation' table before position m
LastHeading(lines, m) ==
    CHOOSE h \in 1..(m - 1) :
        /\ HasToken(lines[h], "orientation:")
        /\ \A j \in (h + 1)..(m - 1) : ~HasToken(lines[j], "orientation:")

\* the rows of the table under heading h: from behind the separator 4 lines
\* after the heading up to the next separator
TableRows(lines, h) ==
    LET end == CHOOSE e \in (h + 5)..Len(lines) :
                   lines[e] = Dash /\ \A j \in (h + 5)..(e - 1) : lines[j] # Dash
    IN SubSeq(lines, h + 5, end - 1)

\* C27: every step carries the decoded rows of the last 'Input orientation'
\* table before its marker, also when two tables precede the marker, and
\* the energy of the last ' SCF Done:' line before the marker.
C27_MostRecentTable ==
    FirstScan
    => \A k \in 1..Len(gout[1].opt_steps) :
           /\ gout[1].opt_steps[k].coord =
                  CoordinatesReader(
                      TableRows(doc, LastHeading(doc, MarkerAt(doc, k))), "out").coord
           /\ gout[1].opt_steps[k].energy = EnergyBefore(doc, MarkerAt(doc, k))

\* the steps one parser_optimisation call gives on the freshly constructed
\* object of a segment
StepsOf(lines) == ParserOptimisation(Construct(lines).g).g.opt_steps

\* C21: get_opt_step(i) as the first call on a freshly constructed finished,
\* error-free object whose segment has more than i 'Converged?' markers
\* returns the i-th step (the steps are computed on first request).
C21_LazySteps ==
    (/\ FinishedClean /\ op = "get_opt_step" /\ calls = 1
     /\ \A i \in StepIndexes : Cardinality(Markers(doc)) > i)
    => /\ err = NoErr
       /\ \E i \in StepIndexes : ret = StepsOf(doc)[i + 1]

-----------------------------------------------------------------------------
(* Properties of Header (checked under SpecHeader) *)

\* the Header that get_header was called on before the last Header(...) call
WrittenHeader ==
    IF err = NoErr /\ Len(gin) >= 2 THEN gin[Len(gin) - 1].header
    ELSE gin[Len(gin)].header

\* directive values without '=', method keywords without '#', one-line title
PlainHeader(h) ==
    /\ \A i \in 1..Len(h.sys) : ~HasToken(h.sys[i][2], "=")
    /\ \A i \in 1..Len(h.method) : ~HasToken(h.method[i], "#")
    /\ ~HasToken(h.comments, "\n")

\* no method keyword ends with white space
TrimmedKeywords(h) ==
    \A i \in 1..Len(h.method) :
        h.method[i] = <<>> \/ h.method[i][Len(h.method[i])] \notin WS

\* the synthetic header of the round-trip example
ExampleHeader ==
    [sys |-> << <<(<<"mem">>), <<"8", "G", "B">> >>, <<(<<"nprocshared">>), (<<"2">>)>> >>,
     method |-> << <<"PM7">>, <<"opt">> >>,
     comments |-> <<"test", " ", "job">>,
     charge |-> 0,
     multiplicity |-> 1]

\* C11 (as stated): reading the lines get_header wrote for a Header whose
\* directive values hold no '=', whose keywords hold no '#' and whose title
\* is one line gives a Header with the same directives, keywords, title,
\* charge and multiplicity.
C11_RoundTrip ==
    (op = "header_again" /\ PlainHeader(WrittenHeader))
    => (err = NoErr /\ Len(gin) >= 2 /\ gin[Len(gin)].header = WrittenHeader)

\* C11 (amended): the same, for a Header none of whose method keywords ends
\* with white space.
C11_RoundTripTrimmed ==
    (op = "header_again" /\ PlainHeader(WrittenHeader) /\ TrimmedKeywords(WrittenHeader))
    => (err = NoErr /\ Len(gin) >= 2 /\ gin[Len(gin)].header = WrittenHeader)

\* C11 witness: the example header was written and read back unchanged.
C11_Witness ==
    /\ op = "header_again" /\ err = NoErr /\ Len(gin) = 2
    /\ gin[1].header = ExampleHeader
    /\ gin[2].header = ExampleHeader

\* C12: Header(lines) raises whenever the (non-empty) lines hold no blank line, that is
\* when the charge/multiplicity line is never reached.
C12_MissingChargeLine ==
    (pc = "done" /\ op = "header" /\ doc # <<>> /\ \A i \in 1..Len(doc) : doc[i] # <<"\n">>)
    => err # NoErr

-----------------------------------------------------------------------------
(* Properties of the atom decoders (checked under SpecDecode) *)

Decoders == {"coordinates_reader_out", "coordinates_reader", "force_parser"}

\* the symbols of the lookup table
Symbols == {"H", "Li", "C", "N", "O", "F", "Na", "P", "S", "Cl", "Br", "I"}

\* the atomic numbers of the lookup table
KnownNumbers == {"1", "3", "6", "7", "8", "9", "11", "15", "16", "17", "35", "53"}

\* the atomic number of a record of the output dialect: its second column
NumberOf(record) == Fields(record)[2]

\* the records of a list that are not blank
AtomRecords(line_list) == SelectSeq(line_list, LAMBDA l : Strip(l) # <<>>)

\* C22: a decoder of the output dialect (coordinate rows and force rows
\* alike) given a record whose atomic number is not in the lookup table raises
\* and returns nothing; the records a decoder returns all carry a symbol of
\* the table, never an empty one.
C22_UnknownElementFails ==
    (pc = "done" /\ op \in Decoders)
    => /\ (\E i \in 1..Len(AtomRecords(doc)) :
               \A z \in KnownNumbers : NumberOf(AtomRecords(doc)[i]) # <<z>>)
          => (err # NoErr /\ ret = <<>>)
       /\ \A i \in 1..Len(ret) : \E y \in Symbols : ret[i][1] = <<y>>

\* C22 witness: the force decoder was given a carbon row and a row with
\* atomic number 99, and raised.
C22_Witness ==
    /\ pc = "done" /\ op = "force_parser"
    /\ doc = <<ForceRow("6"), ForceRow("99")>>
    /\ err # NoErr
    /\ ret = <<>>

-----------------------------------------------------------------------------
(* Independence of the segments of one file (checked under SpecPair) *)

\* the objects an operation can leave when it runs on the object g alone
OwnOutcomes(g, name) ==
    CASE name = "get_params" -> {GetParamsOf(g, param).g : param \in Params}
      [] name = "coord" -> {CoordOf(g).g}
      [] name = "sum_params" -> {SumParamsOf(g).g}
      [] name = "parser_optimisation" -> {ParserOptimisation(g).g}
      [] name = "get_opt_step" -> {g}
      [] OTHER -> {}

\* C23: read_out gives each object of a two-segment file the state its own
\* segment gives when constructed alone; every later operation changes one
\* object only, into a state that depends on that object alone, and no step
\* changes the lines of the document, of a segment or of an object.
C23_Independent ==
    [][ /\ doc' = doc
        /\ pc = "ready"
           => \A j \in 1..Len(gout') :
                  /\ segs'[j] = Slices(doc, Indices0(doc, IsBanner) \o <<Len(doc)>>)[j]
                  /\ gout'[j] = Construct(segs'[j]).g
        /\ pc = "done"
           => /\ segs' = segs
              /\ Len(gout') = Len(gout)
              /\ \A j \in 1..Len(gout) : gout'[j].lines = segs[j]
              /\ \E i \in 1..Len(gout) :
                    /\ gout'[i] \in OwnOutcomes(gout[i], op')
                    /\ \A j \in 1..Len(gout) : j # i => gout'[j] = gout[j] ]_vars

\* C23 witness: the summary of the first object and the steps of the second
\* were computed, the two calls being the only ones.
C23_Witness ==
    /\ Len(gout) = 2 /\ calls = 2
    /\ gout[1].sum_reader
    /\ gout[2].opt_steps # <<>>
    /\ ~gout[2].sum_reader
    /\ gout[1].opt_steps = <<>>

-----------------------------------------------------------------------------
(* Properties of the file operations (checked under SpecFiles) *)

\* the subfolders that hold file f
FoldersOf(f) ==
    {k \in 1..Len(disk.sub) : \E m \in 1..Len(disk.sub[k]) : disk.sub[k][m] = f}

\* C24: after files_distribution(root, per_folder) with per_folder >= 1 has
\* returned, every subfolder holds at most per_folder files and every file
\* of the directory is in exactly one subfolder.
C24_AtMostPerFolder ==
    (/\ pc = "done" /\ op \in {"files_distribution", "files_distribution_old"}
     /\ arg >= 1 /\ err = NoErr)
    => /\ \A k \in 1..Len(disk.sub) : Len(disk.sub[k]) <= arg
       /\ \A m \in 1..Len(doc) : Cardinality(FoldersOf(doc[m])) = 1

-----------------------------------------------------------------------------
(* Properties of the writers of input files (checked under SpecIn) *)

\* the lines of the jobs joined by one '--Link1--' line between two jobs
RECURSIVE Joined(_)
Joined(jobs) ==
    IF jobs = <<>> THEN <<>>
    ELSE IF Len(jobs) = 1 THEN jobs[1]
    ELSE jobs[1] \o <<Link>> \o Joined(Tail(jobs))

\* C25: write_in raises ValueError exactly when the suffix of the
\* destination is not '.gjf'; to a '.gjf' destination it writes the to_gjf
\* lines of the objects of a list, one '--Link1--' line between two jobs and
\* none after the last.
C25_WriteIn ==
    (pc = "done" /\ op = "write_in" /\ arg.kind = "list")
    => /\ (err.type = "ValueError") <=> (arg.suffix # ".gjf")
       /\ arg.suffix = ".gjf"
          => disk.file = <<Joined([k \in 1..Len(gin) |-> ToGjf(gin[k])])>>

\* the object to_gjf was last called on
Written_g == gin[arg]

\* a method keyword holds 'geom' in some case
GeomKeyword(h) ==
    \E i \in 1..Len(h.method) : \E t \in {"geom", "Geom", "GEOM"} : HasToken(h.method[i], t)

\* the atom lines to_gjf has to write for g
AtomCount(g) == IF GeomKeyword(g.header) THEN 0 ELSE Len(g.coord)

\* the lines are: one line per directive, the route lines, a blank line, the
\* title, a blank line, the charge and multiplicity, the atom lines of g and
\* a closing blank line
GjfLayout(g, lines, ns, nm) ==
    /\ Len(lines) = ns + nm + 4 + AtomCount(g) + 1
    /\ \A i \in 1..ns : lines[i][1] = "%" /\ lines[i][2] = g.header.sys[i][1][1]
    /\ \A i \in 1..nm : SubSeq(lines[ns + i], 1, 2) = <<"#", " ">>
    /\ lines[ns + nm + 1] = Blank
    /\ lines[ns + nm + 2] = g.header.comments \o <<"\n">>
    /\ lines[ns + nm + 3] = Blank
    /\ lines[ns + nm + 4] =
           <<FormatInt(g.header.charge), " ", FormatInt(g.header.multiplicity), "\n">>
    /\ \A k \in 1..AtomCount(g) :
           <<lines[ns + nm + 4 + k][1]>> = g.coord[k][1]
    /\ lines[Len(lines)] = Blank

\* the same atom records: symbols and coordinates, in order
SameAtoms(a, b) ==
    /\ Len(a) = Len(b)
    /\ \A k \in 1..Len(a) :
          /\ a[k][1] = b[k][1]
          /\ \A c \in 2..4 : Tenths(a[k][c][1]) = Tenths(b[k][c][1])

\* C30 (as stated): to_gjf returns the lines of the layout above, without
\* atom lines when a keyword holds 'geom'; and for an object g without such
\* a keyword GaussianIn(g.to_gjf()) has the header of g and its atom records.
C30_GjfRoundTrip ==
    /\ (pc = "done" /\ op = "to_gjf")
       => GjfLayout(Written_g, ret, Len(Written_g.header.sys), Len(Written_g.header.method))
    /\ (pc = "done" /\ op = "gaussian_in_again" /\ ~GeomKeyword(Written_g.header))
       => /\ err = NoErr
          /\ ret[1].header = Written_g.header
          /\ SameAtoms(ret[1].coord, Written_g.coord)

\* C30 (amended): the same, the header being compared only for an object
\* none of whose method keywords ends with white space.
C30_GjfRoundTripTrimmed ==
    /\ (pc = "done" /\ op = "to_gjf")
       => GjfLayout(Written_g, ret, Len(Written_g.header.sys), Len(Written_g.header.method))
    /\ (pc = "done" /\ op = "gaussian_in_again" /\ ~GeomKeyword(Written_g.header))
       => /\ err = NoErr
          /\ TrimmedKeywords(Written_g.header) => ret[1].header = Written_g.header
          /\ SameAtoms(ret[1].coord, Written_g.coord)

\* C30 witness: an object with a directive, one keyword and two atoms was
\* written and read back with both atoms.
C30_Witness ==
    /\ pc = "done" /\ op = "gaussian_in_again" /\ err = NoErr
    /\ Written_g.header.method = << <<"PM7">> >>
    /\ Len(Written_g.header.sys) = 1
    /\ Len(Written_g.coord) = 2
    /\ ret[1].header = Written_g.header
    /\ Len(ret[1].coord) = 2
    /\ ret[1].coord[2][1] = <<"H">>

(***************************************************************************)
(* Properties of the directives of an output segment's header             *)
(***************************************************************************)

\* the resource-directive lines of the header slice of an output segment,
\* each as the input file had it: without the listing's leading blank
RECURSIVE DirectivesOf(_, _, _)
DirectivesOf(lines, i, stop) ==
    IF i > stop THEN <<>>
    ELSE (IF IsSysOut(lines[i]) THEN <<Tail(lines[i])>> ELSE <<>>)
         \o DirectivesOf(lines, i + 1, stop)

\* the text of a directive line between the sigil and the line end
DirectiveText(line) == Tail(RStrip(line))

\* C29: the header of a GaussianOut built from an output segment holds, for
\* every directive line %key=value of the header slice, the entry key ->
\* value with the complete value text, and its directives are those of the
\* Header read from the same lines in the input dialect.
C29_DirectivesComplete ==
    (gout # <<>> /\ gout[1].has_header)
    => LET ds == DirectivesOf(gout[1].lines, gout[1].index_header[1] + 1,
                              gout[1].index_header[2]) IN
       /\ \A i \in 1..Len(ds) :
             DictGet(gout[1].header.sys, KeyOf(DirectiveText(ds[i])))
                 = ValueOf(DirectiveText(ds[i]))
       /\ gout[1].header.sys = Header(ds).h.sys

====
